---- MODULE Spec2Model ----
(***************************************************************************)
(* A model of the r-resources build-time resource compiler: the build      *)
(* driver (codegen/mod.rs), reference validation (codegen/references.rs),  *)
(* the flat `r` module generator (codegen/generator/flat.rs), the string   *)
(* classifier (codegen/types.rs) and the streaming reader                  *)
(* (generator/parsing/reader).                                             *)
(*                                                                         *)
(* Strings of the program are sequences of one-character strings, so that  *)
(* split('/'), sanitize_identifier, to_uppercase, escape_debug and string  *)
(* comparison are computed as the code computes them.  A kind name such as *)
(* "string" is kept as one token.                                          *)
(***************************************************************************)
EXTENDS Integers, Sequences, FiniteSets, TLC

VARIABLES
    \* ---- the build driver (build_with_options)
    res_dir_exists,   \* whether res/ exists
    resources,        \* what the well-formed files of res/ declare besides number_decl:
                      \* kind -> <<[name, value]>>
    tests_res_dir,    \* options.tests_res_dir: <<>>, or <<t>> with t what res/tests/ holds
    ref_errors,       \* validate_references' result
    test_code,        \* the loaded test resources: <<>> (None) or <<table>>
    cfg_has_tests,    \* cargo:rustc-cfg=r_resources_has_tests was printed
    code,             \* what this run handed to write_generated_code: <<>> or <<lines>>
    r_generated,      \* OUT_DIR/r_generated.rs: <<>> (absent) or <<lines>>
    exit_status,      \* how the run ended: "none" (not run), "0", "1", or "101" (panic)
    prev_code,        \* `code` of the previous run on the same input
    prev_status,      \* `exit_status` of the previous run on the same input
    runs,             \* completed runs on this input
    malformed,        \* how many XML files of res/ are not well-formed
    number_decl,      \* <<>>, or <<[text, type]>>: a <number name="n"> declaration of res/
    writes,           \* calls of write_generated_code in the last run
    \* ---- one call of resolve_interpolation_parts from emit_string_resource
    rtable,           \* all_resources
    rroot,            \* the string resource whose constant is being emitted
    stack,            \* the call stack of the resolver, innermost frame last
    visited,          \* the HashSet of "{kind}:{key}" tokens
    ret,              \* <<>>, or <<r>>: what the outermost call returned
    maxdepth,         \* deepest nesting of resolve_string_value seen
    \* ---- one template function (emit_template_function) and one call of it
    tpl,              \* the Template: [template, parameters]
    tpl_out,          \* <<>>, or <<[fn, result]>>: the emitted function and its result
    tpl_args,         \* the arguments the generated function is called with
    \* ---- the streaming reader (parse_single_file) followed by emission
    events,           \* the XML events still to be read
    st,               \* ParseState
    parsed,           \* the ParsedResource list produced so far
    consumed,         \* the events of the document read so far
    open_elements,    \* the elements open at this point of the document, outermost first
    decl_groups,      \* for each produced resource: the groups around it and its name attribute
    emitted,          \* <<>>, or <<lines>>: the module generated from `parsed`
    \* ---- one number declaration (handle_number) and one number array (ArrayType::emit_rust)
    num_mode,         \* "number" or "array": which of the two this run is about
    num_text,         \* the text of the declaration
    num_type,         \* its type attribute: <<>> or <<hint>>
    num_resources,    \* the (name, value) pairs recorded under "number"
    num_panic,        \* <<>>, or <<message>> once handle_number has panicked
    num_code,         \* <<>>, or <<lines>>: what emit_number_resource wrote for the declaration
    arr_items,        \* the item texts of the array
    arr_spec,         \* its spec attribute: <<>> or <<hint>>
    arr_code,         \* <<>>, or <<lines>>: what emit_rust returned for the array
    \* ---- loading a directory (load_all_resources, find_xml_files)
    dir_entries,      \* what fs::read_dir yields for res/, in the order it yields it
    xml_files,        \* <<>>, or <<paths>>: what find_xml_files returned
    next_file,        \* the index in xml_files of the file the loop reads next
    all_resources,    \* the table being merged: kind -> <<[name, value]>>
    load_result,      \* "none" while loading, then "Ok" or "Err"
    \* ---- one call of generate_r_module on a table with namespaces
    tree_table,       \* the resource table handed to generate_r_module
    tree_order,       \* the order in which the table yields its kinds
    tree_code,        \* <<>>, or <<lines>>: the module generated from tree_table
    \* ---- one call of ResourceValue::parse_string_value
    cls_text,         \* the text of a <string> declaration
    cls_value,        \* <<>>, or <<v>>: the ResourceValue parse_string_value made of it
    \* ---- one call of preprocess_xml
    xml,              \* the events of the document handed to preprocess_xml
    current_profile,  \* the active build profile
    xml_pos,          \* how many events the loop has read
    skip_depth,       \* depth inside a subtree that is being skipped
    pre_out,              \* what has been written to the output
    pre_done,         \* the loop has met Eof
    \* ---- a number declaration and a declaration that refers to it
    alias_decl,       \* the declaration that holds the reference: [tag, text]
    alias_table,      \* the table parse_resources builds from the two declarations
    alias_order,      \* the order in which the table yields its kinds
    alias_errors,     \* <<>>, or <<errors>>: what validate_references reported
    alias_code        \* <<>>, or <<lines>>: the module generated from the table

buildVars == <<res_dir_exists, resources, tests_res_dir, ref_errors, test_code,
               cfg_has_tests, code, r_generated, exit_status, prev_code, prev_status, runs,
               malformed, number_decl, writes>>
resolveVars == <<rtable, rroot, stack, visited, ret, maxdepth>>
templateVars == <<tpl, tpl_out, tpl_args>>
parseVars == <<events, consumed, st, parsed, open_elements, decl_groups, emitted>>
numberVars == <<num_mode, num_text, num_type, num_resources, num_panic, num_code,
                arr_items, arr_spec, arr_code>>
loadVars == <<dir_entries, xml_files, next_file, all_resources, load_result>>
treeVars == <<tree_table, tree_order, tree_code>>
classifyVars == <<cls_text, cls_value>>
profileVars == <<xml, current_profile, xml_pos, skip_depth, pre_out, pre_done>>
aliasVars == <<alias_decl, alias_table, alias_order, alias_errors, alias_code>>
vars == <<buildVars, resolveVars, templateVars, parseVars, numberVars, loadVars, treeVars, classifyVars, profileVars, aliasVars>>

(***************************************************************************)
(* Bounds of the model.                                                    *)
(***************************************************************************)
MaxEntries == 3      \* resources in one main table
MaxRuns == 2         \* runs of the compiler on one unchanged input
MaxMalformed == 1    \* XML files of res/ that are not well-formed

(***************************************************************************)
(* Characters and strings.                                                 *)
(***************************************************************************)
Str(tok) == <<tok>>

LowerCase == <<"a", "b", "c", "d", "e", "f", "g", "h", "i", "j", "k", "l", "m",
               "n", "o", "p", "q", "r", "s", "t", "u", "v", "w", "x", "y", "z">>

UpperCase == <<"A", "B", "C", "D", "E", "F", "G", "H", "I", "J", "K", "L", "M",
               "N", "O", "P", "Q", "R", "S", "T", "U", "V", "W", "X", "Y", "Z">>

Digits == <<"0", "1", "2", "3", "4", "5", "6", "7", "8", "9">>

\* the position of c in the table, 0 when it is not in it
IndexIn(table, c) ==
    IF \E i \in 1..Len(table) : table[i] = c
    THEN CHOOSE i \in 1..Len(table) : table[i] = c
    ELSE 0

\* char::to_uppercase (ASCII)
UpperChar(c) == IF IndexIn(LowerCase, c) # 0 THEN UpperCase[IndexIn(LowerCase, c)] ELSE c

\* char::to_lowercase (ASCII)
LowerChar(c) == IF IndexIn(UpperCase, c) # 0 THEN LowerCase[IndexIn(UpperCase, c)] ELSE c

\* char::is_alphanumeric (ASCII)
IsAlphanumeric(c) ==
    IndexIn(LowerCase, c) # 0 \/ IndexIn(UpperCase, c) # 0 \/ IndexIn(Digits, c) # 0

\* the byte value of a character (String::cmp compares bytes)
CharOrd(c) ==
    CASE IndexIn(Digits, c) # 0 -> 47 + IndexIn(Digits, c)
      [] IndexIn(UpperCase, c) # 0 -> 64 + IndexIn(UpperCase, c)
      [] IndexIn(LowerCase, c) # 0 -> 96 + IndexIn(LowerCase, c)
      [] c = " " -> 32 [] c = "!" -> 33 [] c = "\"" -> 34 [] c = "#" -> 35
      [] c = "," -> 44 [] c = "-" -> 45 [] c = "." -> 46 [] c = "/" -> 47
      [] c = ":" -> 58 [] c = "@" -> 64 [] c = "\\" -> 92 [] c = "_" -> 95
      [] c = "{" -> 123 [] c = "}" -> 125
      [] OTHER -> 127

RECURSIVE StrLess(_, _)
\* a < b in String's (lexicographic, bytewise) order
StrLess(a, b) ==
    IF b = <<>> THEN FALSE
    ELSE IF a = <<>> THEN TRUE
    ELSE IF Head(a) = Head(b) THEN StrLess(Tail(a), Tail(b))
    ELSE CharOrd(Head(a)) < CharOrd(Head(b))

sanitize_identifier(s) ==
    [i \in 1..Len(s) |-> IF IsAlphanumeric(s[i]) \/ s[i] = "_" THEN s[i] ELSE "_"]

to_uppercase(s) == [i \in 1..Len(s) |-> UpperChar(s[i])]

to_lowercase(s) == [i \in 1..Len(s) |-> LowerChar(s[i])]

RECURSIVE escape_debug(_)
\* str::escape_debug on the characters the model uses
escape_debug(s) ==
    IF s = <<>> THEN <<>>
    ELSE (CASE Head(s) = "\"" -> <<"\\", "\"">>
            [] Head(s) = "\\" -> <<"\\", "\\">>
            [] Head(s) = "\n" -> <<"\\", "n">>
            [] OTHER -> <<Head(s)>>) \o escape_debug(Tail(s))

RECURSIVE SplitAcc(_, _, _)
SplitAcc(s, cur, acc) ==
    IF s = <<>> THEN (IF cur = <<>> THEN acc ELSE Append(acc, cur))
    ELSE IF Head(s) = "/"
         THEN SplitAcc(Tail(s), <<>>, IF cur = <<>> THEN acc ELSE Append(acc, cur))
         ELSE SplitAcc(Tail(s), Append(cur, Head(s)), acc)

\* path.split('/').filter(|s| !s.is_empty()).collect()
SplitNonEmpty(path) == SplitAcc(path, <<>>, <<>>)

split_path_to_namespace(path) ==
    LET parts == SplitNonEmpty(path) IN
    IF parts = <<>> THEN [namespace_path |-> <<>>, leaf_name |-> <<>>]
    ELSE [namespace_path |-> [i \in 1..(Len(parts) - 1) |-> sanitize_identifier(parts[i])],
          leaf_name |-> sanitize_identifier(parts[Len(parts)])]

RECURSIVE Flatten(_)
\* the concatenation of a sequence of sequences
Flatten(ss) == IF ss = <<>> THEN <<>> ELSE Head(ss) \o Flatten(Tail(ss))

RECURSIVE NatToStr(_)
NatToStr(n) ==
    IF n < 10 THEN <<Digits[n + 1]>>
    ELSE NatToStr(n \div 10) \o NatToStr(n % 10)

\* i64's Display
IntToStr(n) == IF n < 0 THEN <<"-">> \o NatToStr(-n) ELSE NatToStr(n)

Perms(S) ==
    {p \in [1..Cardinality(S) -> S] : \A i, j \in 1..Cardinality(S) : i # j => p[i] # p[j]}

(***************************************************************************)
(* ResourceValue (codegen/types.rs).                                       *)
(***************************************************************************)
VString(s) == [t |-> "String", s |-> s]
VColor(s) == [t |-> "Color", s |-> s]
\* NumberValue::Int holds an i64; v is its decimal rendering (Display)
VInt(n) == [t |-> "Number", n |-> [t |-> "Int", v |-> IntToStr(n)]]
VBool(b) == [t |-> "Bool", b |-> b]
VReference(rt, key) == [t |-> "Reference", resource_type |-> rt, key |-> key]
VInterpolated(parts) == [t |-> "InterpolatedString", parts |-> parts]
VTemplate(text, params) == [t |-> "Template", template |-> text, parameters |-> params]
PText(s) == [t |-> "Text", text |-> s]
PReference(rt, key) == [t |-> "Reference", resource_type |-> rt, key |-> key]

\* HashMap::get followed by iter().find / iter().any on the kind's list
HasKind(all, rt) == rt \in DOMAIN all
HasKey(all, rt, key) == HasKind(all, rt) /\ \E i \in 1..Len(all[rt]) : all[rt][i].name = key
FindValue(all, rt, key) ==
    LET i == CHOOSE i \in 1..Len(all[rt]) :
                 /\ all[rt][i].name = key
                 /\ \A j \in 1..(i - 1) : all[rt][j].name # key
    IN all[rt][i].value

(***************************************************************************)
(* Template compiler (flat.rs, parse_template_placeholders).               *)
(***************************************************************************)
\* s[from..].find(c), as an absolute 1-based index; 0 when there is none
FindFrom(s, c, from) ==
    IF \E i \in from..Len(s) : s[i] = c
    THEN CHOOSE i \in from..Len(s) : s[i] = c /\ \A j \in from..(i - 1) : s[j] # c
    ELSE 0

\* parameters.iter().find(|p| p.name == placeholder)
FindParam(parameters, placeholder) ==
    IF \E i \in 1..Len(parameters) : parameters[i].name = placeholder
    THEN CHOOSE i \in 1..Len(parameters) :
             /\ parameters[i].name = placeholder
             /\ \A j \in 1..(i - 1) : parameters[j].name # placeholder
    ELSE 0

RECURSIVE ScanPlaceholders(_, _, _, _, _)
\* the while-let loop of parse_template_placeholders from current_pos on
ScanPlaceholders(template_str, parameters, current_pos, format_parts, format_args) ==
    LET start_abs == FindFrom(template_str, "{", current_pos) IN
    IF start_abs = 0
    THEN [format_str |-> format_parts
                         \o escape_debug(SubSeq(template_str, current_pos, Len(template_str))),
          format_args |-> format_args]
    ELSE LET text_before == escape_debug(SubSeq(template_str, current_pos, start_abs - 1))
             end_abs == FindFrom(template_str, "}", start_abs + 1)
         IN IF end_abs = 0
            THEN ScanPlaceholders(template_str, parameters, start_abs + 1,
                                  format_parts \o text_before \o <<"\\", "{">>, format_args)
            ELSE LET placeholder == SubSeq(template_str, start_abs + 1, end_abs - 1)
                     p == FindParam(parameters, placeholder)
                 IN IF p # 0
                    THEN ScanPlaceholders(template_str, parameters, end_abs + 1,
                             format_parts \o text_before \o <<"{", "}">>,
                             Append(format_args, sanitize_identifier(parameters[p].name)))
                    ELSE ScanPlaceholders(template_str, parameters, end_abs + 1,
                             format_parts \o text_before
                                 \o <<"\\", "{">> \o placeholder \o <<"\\", "}">>,
                             format_args)

parse_template_placeholders(template_str, parameters) ==
    ScanPlaceholders(template_str, parameters, 1, <<>>, <<>>)

\* format_str.replace('\\', "")
StripBackslashes(s) == SelectSeq(s, LAMBDA c : c # "\\")

rust_type(param) ==
    CASE param.param_type = "String" -> "&str"
      [] param.param_type = "Int" -> "i64"
      [] param.param_type = "Float" -> "f64"
      [] param.param_type = "Bool" -> "bool"

\* the function emit_template_function writes: its name, its parameter list and the
\* expression of its body ("lit": "<text>".to_string(), "format": format!("<text>", args))
emit_template_function(fn_name, template) ==
    LET parsed_tpl == parse_template_placeholders(template.template, template.parameters)
        params == [i \in 1..Len(template.parameters) |->
                      [name |-> sanitize_identifier(template.parameters[i].name),
                       ty |-> rust_type(template.parameters[i])]]
    IN [l |-> "fn", name |-> fn_name, params |-> params,
        body |-> IF parsed_tpl.format_args = <<>> THEN "lit" ELSE "format",
        text |-> IF parsed_tpl.format_args = <<>>
                 THEN StripBackslashes(parsed_tpl.format_str)
                 ELSE parsed_tpl.format_str,
        args |-> parsed_tpl.format_args]

(***************************************************************************)
(* Interpolation resolver (flat.rs), as the functions the code defines.    *)
(* `visited` is restored by resolve_string_value before it returns, so it  *)
(* is passed down by value.                                                *)
(***************************************************************************)
None == [some |-> FALSE, s |-> <<>>]
Some(s) == [some |-> TRUE, s |-> s]

\* format!("{resource_type}:{key}")
RefKey(resource_type, key) == <<resource_type, ":">> \o key

\* format!("@{}", key)
UnresolvedMarker(key) == <<"@">> \o key

RECURSIVE resolve_interpolation_parts(_, _, _)
RECURSIVE resolve_string_value(_, _, _, _)
RECURSIVE extract_string_from_value(_, _, _)

resolve_interpolation_parts(parts, all, vis) ==
    IF parts = <<>> THEN Some(<<>>)
    ELSE LET part == Head(parts)
             piece == IF part.t = "Text" THEN part.text
                      ELSE LET r == resolve_string_value(part.resource_type, part.key, all, vis)
                           IN IF r.some THEN r.s ELSE UnresolvedMarker(part.key)
         IN Some(piece \o resolve_interpolation_parts(Tail(parts), all, vis).s)

resolve_string_value(resource_type, key, all, vis) ==
    IF RefKey(resource_type, key) \in vis THEN None
    ELSE IF HasKey(all, resource_type, key)
         THEN extract_string_from_value(FindValue(all, resource_type, key), all,
                                        vis \cup {RefKey(resource_type, key)})
         ELSE None

extract_string_from_value(value, all, vis) ==
    CASE value.t = "String" -> Some(value.s)
      [] value.t = "Reference" -> resolve_string_value(value.resource_type, value.key, all, vis)
      [] value.t = "InterpolatedString" -> resolve_interpolation_parts(value.parts, all, vis)
      [] OTHER -> None

(***************************************************************************)
(* The flat module generator (flat.rs).  The generated text is a sequence  *)
(* of lines; a line's indentation is four spaces per enclosing module and  *)
(* so is determined by the `mod` and `end` lines before it.                *)
(***************************************************************************)
LMod(name) == [l |-> "mod", name |-> name, ty |-> "", value |-> <<>>]
LEnd == [l |-> "end", name |-> <<>>, ty |-> "", value |-> <<>>]
LConst(name, ty, value) == [l |-> "const", name |-> name, ty |-> ty, value |-> value]
LStatic(name, ty, value) == [l |-> "static", name |-> name, ty |-> ty, value |-> value]
LUse(target, as) == [l |-> "use", name |-> as, ty |-> "", value |-> target]
LImport(what) == [l |-> "import", name |-> <<>>, ty |-> "", value |-> <<what>>]
LStruct == [l |-> "struct R", name |-> <<>>, ty |-> "", value |-> <<>>]

\* format!("crate::{resource_type}::{sanitized_key}") / format!("{resource_type}::{..}")
resolve_reference_path(resource_type, key, use_crate_prefix) ==
    (IF use_crate_prefix THEN <<"crate", "::">> ELSE <<>>)
        \o <<resource_type, "::">> \o to_uppercase(sanitize_identifier(key))

emit_reference_constant(const_name, resource_type, key) ==
    <<LUse(resolve_reference_path(resource_type, key, TRUE), const_name)>>

emit_string_constant(const_name, value) ==
    <<LConst(const_name, "&str", escape_debug(value))>>

\* literal.replace('\\', "\\\\").replace('"', "\\\"")
escape_literal(literal) ==
    Flatten([i \in 1..Len(literal) |->
                CASE literal[i] = "\\" -> <<"\\", "\\">>
                  [] literal[i] = "\"" -> <<"\\", "\"">>
                  [] OTHER -> <<literal[i]>>])

emit_number_value(const_name, number) ==
    CASE number.t = "Int" -> <<LConst(const_name, "i64", number.v)>>
      [] number.t = "Float" -> <<LConst(const_name, "f64", number.lit)>>
      [] number.t = "BigDecimal" ->
             <<LStatic(const_name, "LazyLock<BigDecimal>", escape_literal(number.lit))>>
      [] number.t = "Typed" -> <<LConst(const_name, number.ty, number.lit)>>

emit_string_resource(const_name, entry, all) ==
    LET v == entry.value IN
    CASE v.t = "String" -> emit_string_constant(const_name, v.s)
      [] v.t = "Reference" -> emit_reference_constant(const_name, v.resource_type, v.key)
      [] v.t = "InterpolatedString" ->
             emit_string_constant(const_name, resolve_interpolation_parts(v.parts, all, {}).s)
      [] v.t = "Template" ->
             <<emit_template_function(to_lowercase(sanitize_identifier(entry.leaf_name)), v)>>
      [] OTHER -> <<>>

emit_number_resource(const_name, entry) ==
    LET v == entry.value IN
    CASE v.t = "Number" -> emit_number_value(const_name, v.n)
      [] v.t = "Reference" -> emit_reference_constant(const_name, v.resource_type, v.key)
      [] OTHER -> <<>>

emit_bool_resource(const_name, entry) ==
    LET v == entry.value IN
    CASE v.t = "Bool" -> <<LConst(const_name, "bool", IF v.b THEN <<"true">> ELSE <<"false">>)>>
      [] v.t = "Reference" -> emit_reference_constant(const_name, v.resource_type, v.key)
      [] OTHER -> <<>>

emit_text_resource(const_name, entry) ==
    LET v == entry.value IN
    CASE v.t \in {"Color", "Url", "Dimension"} -> <<LConst(const_name, "&str", escape_debug(v.s))>>
      [] v.t = "Reference" -> emit_reference_constant(const_name, v.resource_type, v.key)
      [] OTHER -> <<>>

emit_string_array_resource(const_name, entry) ==
    IF entry.value.t = "StringArray"
    THEN <<LConst(const_name, "&[&str]",
                  Flatten([i \in 1..Len(entry.value.items) |->
                              (IF i > 1 THEN <<",", " ">> ELSE <<>>)
                                  \o <<"\"">> \o escape_debug(entry.value.items[i]) \o <<"\"">>]))>>
    ELSE <<>>

emit_int_array_resource(const_name, entry) ==
    IF entry.value.t = "IntArray"
    THEN <<LConst(const_name, "&[i64]",
                  Flatten([i \in 1..Len(entry.value.items) |->
                              (IF i > 1 THEN <<",", " ">> ELSE <<>>) \o IntToStr(entry.value.items[i])]))>>
    ELSE <<>>

emit_float_array_resource(const_name, entry) ==
    IF entry.value.t = "FloatArray"
    THEN <<LConst(const_name, "&[f64]",
                  Flatten([i \in 1..Len(entry.value.items) |->
                              (IF i > 1 THEN <<",", " ">> ELSE <<>>) \o entry.value.items[i]]))>>
    ELSE <<>>

emit_resource(entry, all) ==
    LET const_name == to_uppercase(sanitize_identifier(entry.leaf_name)) IN
    CASE entry.resource_type = "string" -> emit_string_resource(const_name, entry, all)
      [] entry.resource_type = "number" -> emit_number_resource(const_name, entry)
      [] entry.resource_type = "bool" -> emit_bool_resource(const_name, entry)
      [] entry.resource_type \in {"color", "url", "dimension"} ->
             emit_text_resource(const_name, entry)
      [] entry.resource_type = "string_array" -> emit_string_array_resource(const_name, entry)
      [] entry.resource_type = "int_array" -> emit_int_array_resource(const_name, entry)
      [] entry.resource_type = "float_array" -> emit_float_array_resource(const_name, entry)
      [] OTHER -> <<>>

\* the entries one kind contributes, in the order of its list
EntriesOfKind(all, resource_type) ==
    LET items == all[resource_type]
        entry(i) == LET sp == split_path_to_namespace(items[i].name) IN
                    [resource_type |-> resource_type,
                     namespace_path |-> sp.namespace_path,
                     leaf_name |-> sp.leaf_name,
                     value |-> items[i].value]
    IN SelectSeq([i \in 1..Len(items) |-> entry(i)], LAMBDA e : e.leaf_name # <<>>)

\* `order` is the order in which this HashMap yields its keys
collect_entries(all, order) ==
    Flatten([k \in 1..Len(order) |-> EntriesOfKind(all, order[k])])

\* The NamespaceNode tree as a function from a node's path to its resource_indices.
build_namespace_tree(entries) ==
    LET nodes == {<<>>} \cup UNION {{SubSeq(entries[i].namespace_path, 1, n) :
                                        n \in 0..Len(entries[i].namespace_path)} :
                                    i \in 1..Len(entries)}
    IN [p \in nodes |->
           SelectSeq([i \in 1..Len(entries) |-> i],
                     LAMBDA i : entries[i].namespace_path = p)]

RECURSIVE InsertByLeaf(_, _, _)
\* x goes after every index whose leaf_name is not greater (sort_by is stable)
InsertByLeaf(sorted, x, entries) ==
    IF sorted = <<>> THEN <<x>>
    ELSE IF StrLess(entries[x].leaf_name, entries[Head(sorted)].leaf_name)
         THEN <<x>> \o sorted
         ELSE <<Head(sorted)>> \o InsertByLeaf(Tail(sorted), x, entries)

RECURSIVE SortByLeaf(_, _)
\* indices.sort_by(|a, b| entries[*a].leaf_name.cmp(&entries[*b].leaf_name))
SortByLeaf(indices, entries) ==
    IF indices = <<>> THEN <<>>
    ELSE InsertByLeaf(SortByLeaf(SubSeq(indices, 1, Len(indices) - 1), entries),
                      indices[Len(indices)], entries)

\* a tree whose resource_indices are left in insertion order
keep_namespace_tree(tree, entries) == tree

sort_namespace_tree(tree, entries) ==
    [p \in DOMAIN tree |-> SortByLeaf(tree[p], entries)]

RECURSIVE SortedKeys(_)
\* the keys of a BTreeMap<String, _> in iteration order
SortedKeys(S) ==
    IF S = {} THEN <<>>
    ELSE LET m == CHOOSE x \in S : \A y \in S \ {x} : StrLess(x, y)
         IN <<m>> \o SortedKeys(S \ {m})

RECURSIVE emit_namespace_tree(_, _, _, _)
emit_namespace_tree(tree, p, entries, all) ==
    LET children == {q[Len(p) + 1] : q \in {q \in DOMAIN tree :
                        Len(q) > Len(p) /\ SubSeq(q, 1, Len(p)) = p}}
        names == SortedKeys(children)
    IN Flatten([i \in 1..Len(names) |->
                   <<LMod(names[i])>>
                       \o emit_namespace_tree(tree, Append(p, names[i]), entries, all)
                       \o <<LEnd>>])
       \o Flatten([i \in 1..Len(tree[p]) |-> emit_resource(entries[tree[p][i]], all)])

needs_big_decimal(all) ==
    /\ "number" \in DOMAIN all
    /\ \E i \in 1..Len(all["number"]) :
           /\ all["number"][i].value.t = "Number"
           /\ all["number"][i].value.n.t = "BigDecimal"

\* generate_r_module / generate_r_tests_module, which differ in the module's name
GenerateModule(mod_name, all, order) ==
    LET entries == collect_entries(all, order)
        tree == sort_namespace_tree(build_namespace_tree(entries), entries)
    IN <<LMod(mod_name)>>
       \o (IF needs_big_decimal(all)
           THEN <<LImport("core::str::FromStr"), LImport("std::sync::LazyLock"),
                  LImport("r_resources::BigDecimal")>>
           ELSE <<>>)
       \o emit_namespace_tree(tree, <<>>, entries, all)
       \o <<LEnd>>

generate_r_module(all, order) == GenerateModule(<<"r">>, all, order)

generate_r_tests_module(all, order) ==
    GenerateModule(<<"r", "_", "t", "e", "s", "t", "s">>, all, order)

generate_code(all, order) == generate_r_module(all, order) \o <<LStruct>>

\* a generator that leaves the test module out
generate_code_without_tests(all, order, tests, torder) == generate_code(all, order)

generate_code_with_tests(all, order, tests, torder) ==
    generate_r_module(all, order) \o generate_r_tests_module(tests, torder) \o <<LStruct>>

generate_empty_code == <<LMod(<<"r">>), LEnd, LStruct>>

(***************************************************************************)
(* Reference validation (references.rs).  An error message is kept as its  *)
(* format string and the values formatted into it.                         *)
(***************************************************************************)
ValidateItem(all, res_type, item) ==
    IF item.value.t = "Reference"
    THEN IF HasKind(all, item.value.resource_type)
         THEN IF HasKey(all, item.value.resource_type, item.value.key)
              THEN <<>>
              ELSE <<[fmt |-> "Unresolved reference in {}.{}: @{}/{} does not exist",
                      args |-> <<Str(res_type), item.name,
                                 Str(item.value.resource_type), item.value.key>>]>>
         ELSE <<[fmt |-> "Invalid reference in {}.{}: resource type '{}' does not exist",
                 args |-> <<Str(res_type), item.name, Str(item.value.resource_type)>>]>>
    ELSE <<>>

\* a validation that reports nothing
validate_nothing(all, order) == <<>>

validate_references(all, order) ==
    Flatten([k \in 1..Len(order) |->
                Flatten([i \in 1..Len(all[order[k]]) |->
                            ValidateItem(all, order[k], all[order[k]][i])])])

(***************************************************************************)
(* The build driver (codegen/mod.rs).                                      *)
(***************************************************************************)
\* The declarations a res/ directory may hold, as parse_resources classifies them:
\*   <string name="x">a</string>              <number name="x">5</number>
\*   <ns name="a"><string name="t">x</string></ns>
\*   <string name="b">@string/a/t</string>    <number name="c">@number/x</number>
\*   <string name="y">@string/b</string>      <string name="z">@nokind/x</string>
\*   <string name="n">@string/zz</string>
MainPool ==
    << [kind |-> "string", name |-> <<"x">>, value |-> VString(<<"a">>)],
       [kind |-> "number", name |-> <<"x">>, value |-> VInt(5)],
       [kind |-> "string", name |-> <<"a", "/", "t">>, value |-> VString(<<"x">>)],
       [kind |-> "string", name |-> <<"b">>, value |-> VReference("string", <<"a", "/", "t">>)],
       [kind |-> "number", name |-> <<"c">>, value |-> VReference("number", <<"x">>)],
       [kind |-> "string", name |-> <<"y">>, value |-> VReference("string", <<"b">>)],
       [kind |-> "string", name |-> <<"z">>, value |-> VReference("nokind", <<"x">>)],
       [kind |-> "string", name |-> <<"n">>, value |-> VReference("string", <<"z", "z">>)] >>

\* The declarations res/tests/ may hold:
\*   <string name="t">x</string>   <string name="n">@string/zz</string>
TestPool ==
    << [kind |-> "string", name |-> <<"t">>, value |-> VString(<<"x">>)],
       [kind |-> "string", name |-> <<"n">>, value |-> VReference("string", <<"z", "z">>)] >>

\* The table load_all_resources builds from the declarations `decls`, read in order:
\* all_resources.entry(res_type).or_insert_with(Vec::new).extend(items)
load_all_resources(decls) ==
    [k \in {decls[i].kind : i \in 1..Len(decls)} |->
        LET mine == SelectSeq(decls, LAMBDA d : d.kind = k)
        IN [i \in 1..Len(mine) |-> [name |-> mine[i].name, value |-> mine[i].value]]]

SubPool(pool, S) == SelectSeq([i \in 1..Len(pool) |-> [i |-> i, d |-> pool[i]]],
                              LAMBDA e : e.i \in S)

Tables(pool, max) ==
    {load_all_resources([j \in 1..Len(SubPool(pool, S)) |-> SubPool(pool, S)[j].d]) :
        S \in {S \in SUBSET (1..Len(pool)) : Cardinality(S) <= max}}

\* the orders in which a HashMap with these keys may yield them
HashOrders(all) == Perms(DOMAIN all)

KeyOrders(all) == {[i \in 1..Cardinality(DOMAIN all) |-> p[i]] : p \in HashOrders(all)}

\* The other parts of the model at rest.
IdleResolve ==
    /\ rtable = load_all_resources(<<>>)
    /\ rroot = <<>>
    /\ stack = <<>>
    /\ visited = {}
    /\ ret = <<>>
    /\ maxdepth = 0

IdleTemplate ==
    /\ tpl = VTemplate(<<>>, <<>>)
    /\ tpl_out = <<>>
    /\ tpl_args = <<>>

IdleNumber ==
    /\ num_mode = "" /\ num_text = <<>> /\ num_type = <<>> /\ num_resources = <<>>
    /\ num_panic = <<>> /\ num_code = <<>>
    /\ arr_items = <<>> /\ arr_spec = <<>> /\ arr_code = <<>>

IdleLoad ==
    /\ dir_entries = <<>>
    /\ xml_files = <<>>
    /\ next_file = 0
    /\ all_resources = load_all_resources(<<>>)
    /\ load_result = "none"

IdleTree ==
    /\ tree_table = load_all_resources(<<>>)
    /\ tree_order = <<>>
    /\ tree_code = <<>>

IdleClassify ==
    /\ cls_text = <<>>
    /\ cls_value = <<>>

IdleProfile ==
    /\ xml = <<>>
    /\ current_profile = ""
    /\ xml_pos = 0
    /\ skip_depth = 0
    /\ pre_out = <<>>
    /\ pre_done = FALSE

IdleAlias ==
    /\ alias_decl = <<>>
    /\ alias_table = load_all_resources(<<>>)
    /\ alias_order = <<>>
    /\ alias_errors = <<>>
    /\ alias_code = <<>>

IdleParse ==
    /\ events = <<>>
    /\ consumed = <<>>
    /\ st = <<>>
    /\ parsed = <<>>
    /\ open_elements = <<>>
    /\ decl_groups = <<>>
    /\ emitted = <<>>

(***************************************************************************)
(* Properties of a build.                                                  *)
(***************************************************************************)
Range(f) == {f[i] : i \in DOMAIN f}

\* the declarations of a table: <<kind, index in the kind's list>>
Declared(all) == UNION {{<<k, i>> : i \in 1..Len(all[k])} : k \in DOMAIN all}

ValueOf(all, d) == all[d[1]][d[2]].value
NameOf(all, d) == all[d[1]][d[2]].name

IsPureRef(all, d) == ValueOf(all, d).t = "Reference"

TargetExists(all, d) == HasKey(all, ValueOf(all, d).resource_type, ValueOf(all, d).key)

IsDangling(all, d) == IsPureRef(all, d) /\ ~TargetExists(all, d)

\* The items of a generated text with the paths under which the including crate
\* sees them: the item's name below the modules open at its line.
RECURSIVE ItemsFrom(_, _)
ItemsFrom(lines, mods) ==
    IF lines = <<>> THEN <<>>
    ELSE LET ln == Head(lines) IN
         CASE ln.l = "mod" -> ItemsFrom(Tail(lines), Append(mods, ln.name))
           [] ln.l = "end" -> ItemsFrom(Tail(lines), SubSeq(mods, 1, Len(mods) - 1))
           [] ln.l \in {"const", "static", "use", "fn"} ->
                  <<[path |-> <<"crate">> \o Flatten([i \in 1..Len(mods) |-> <<"::">> \o mods[i]])
                                  \o <<"::">> \o ln.name,
                     line |-> ln]>> \o ItemsFrom(Tail(lines), mods)
           [] OTHER -> ItemsFrom(Tail(lines), mods)

Items(lines) == ItemsFrom(lines, <<>>)

\* where emit_namespace_tree and emit_resource put the constant of the resource `name`
EmittedPlace(name) ==
    LET sp == split_path_to_namespace(name) IN
    <<"crate", "::", "r">>
        \o Flatten([i \in 1..Len(sp.namespace_path) |-> <<"::">> \o sp.namespace_path[i]])
        \o <<"::">> \o to_uppercase(sanitize_identifier(sp.leaf_name))

BuildSucceeded == runs > 0 /\ res_dir_exists /\ exit_status = "0"

\* C1: two runs of the compiler on the same input that both produce a text
\* produce the same text, whatever order the hash maps yield their kinds in.
C1_Deterministic ==
    (runs = MaxRuns /\ exit_status = "0" /\ prev_status = "0") => code = prev_code

\* C2: in a generated text, the path every alias of a pure reference with an
\* existing target names is the path at which the target's item is emitted.
C2_AliasDenotesTarget ==
    BuildSucceeded =>
        \A d \in Declared(resources) :
            (IsPureRef(resources, d) /\ TargetExists(resources, d)) =>
                \A i \in 1..Len(Items(code[1])) :
                    LET it == Items(code[1])[i] IN
                    (it.line.l = "use" /\ it.path = EmittedPlace(NameOf(resources, d))) =>
                        /\ it.line.value = EmittedPlace(ValueOf(resources, d).key)
                        /\ \E j \in 1..Len(Items(code[1])) :
                               Items(code[1])[j].path = it.line.value

\* an error message mentions the text s
Mentions(e, s) == \E i \in 1..Len(e.args) : e.args[i] = s

\* C3: a dangling pure reference makes the run fail with an error that names
\* the declaration's kind and name and the target's kind and key.
C3_DanglingNamed ==
    (runs > 0 /\ res_dir_exists) =>
        \A d \in Declared(resources) :
            IsDangling(resources, d) =>
                /\ exit_status = "1"
                /\ \E i \in 1..Len(ref_errors) :
                       /\ Mentions(ref_errors[i], Str(d[1]))
                       /\ Mentions(ref_errors[i], NameOf(resources, d))
                       /\ Mentions(ref_errors[i], Str(ValueOf(resources, d).resource_type))
                       /\ Mentions(ref_errors[i], ValueOf(resources, d).key)

DanglingCount(all) == Cardinality({d \in Declared(all) : IsDangling(all, d)})

\* C4: a run reports as many errors as there are dangling pure references in
\* the resource sets it loaded, the test set included.
C4_ErrorCount ==
    (runs > 0 /\ res_dir_exists /\ DOMAIN resources # {}) =>
        Len(ref_errors) = DanglingCount(resources)
                            + (IF test_code # <<>> THEN DanglingCount(test_code[1]) ELSE 0)

(***************************************************************************)
(* Classification of a string declaration's text (types.rs).  In a text a  *)
(* kind name is one element, e.g. <<"@", "string", "/", "b">>.             *)
(***************************************************************************)
\* the kind a slice of text spells
KindOf(slice) == IF Len(slice) = 1 THEN slice[1] ELSE ""

canonicalize_resource_type(resource_type) ==
    IF resource_type \in {"int", "float"} THEN "number" ELSE resource_type

Count(s, c) == Cardinality({i \in 1..Len(s) : s[i] = c})

NoRef == [some |-> FALSE, resource_type |-> "", key |-> <<>>, consumed |-> 0]

is_pure_reference(s) ==
    IF /\ s # <<>>
       /\ Head(s) = "@"
       /\ Count(s, " ") = 0
       /\ Count(s, "@") = 1
       /\ FindFrom(Tail(s), "/", 1) # 0
    THEN LET rest == Tail(s)
             p == FindFrom(rest, "/", 1)
         IN [some |-> TRUE,
             resource_type |-> canonicalize_resource_type(KindOf(SubSeq(rest, 1, p - 1))),
             key |-> SubSeq(rest, p + 1, Len(rest)),
             consumed |-> Len(s)]
    ELSE NoRef

IsKeyChar(c) == IsAlphanumeric(c) \/ c = "_" \/ c = "/"

parse_ref_after_at(after_at) ==
    LET sp == FindFrom(after_at, "/", 1) IN
    IF sp = 0 THEN NoRef
    ELSE LET after_slash == SubSeq(after_at, sp + 1, Len(after_at))
             stops == {i \in 1..Len(after_slash) : ~IsKeyChar(after_slash[i])}
             ref_end == IF stops = {} THEN Len(after_slash)
                        ELSE (CHOOSE i \in stops : \A j \in stops : i <= j) - 1
             had_trailing_slash == ref_end > 0 /\ after_slash[ref_end] = "/"
             key_len == IF had_trailing_slash THEN ref_end - 1 ELSE ref_end
         IN [some |-> TRUE,
             resource_type |-> canonicalize_resource_type(KindOf(SubSeq(after_at, 1, sp - 1))),
             key |-> SubSeq(after_slash, 1, key_len),
             consumed |-> sp + key_len]

RECURSIVE ScanParts(_, _, _)
\* the loop of parse_interpolated_parts, from the position current_pos
ScanParts(s, current_pos, parts) ==
    IF current_pos > Len(s) THEN parts
    ELSE LET at_pos == FindFrom(s, "@", current_pos) IN
         IF at_pos = 0
         THEN Append(parts, PText(SubSeq(s, current_pos, Len(s))))
         ELSE LET before == IF at_pos > current_pos
                            THEN Append(parts, PText(SubSeq(s, current_pos, at_pos - 1)))
                            ELSE parts
                  r == parse_ref_after_at(SubSeq(s, at_pos + 1, Len(s)))
              IN IF r.some
                 THEN ScanParts(s, at_pos + 1 + r.consumed,
                                Append(before, PReference(r.resource_type, r.key)))
                 ELSE ScanParts(s, at_pos + 1, Append(before, PText(<<"@">>)))

\* <<>> is None, <<parts>> is Some(parts)
parse_interpolated_parts(s) ==
    IF Count(s, "@") = 0 THEN <<>>
    ELSE IF ScanParts(s, 1, <<>>) = <<>> THEN <<>> ELSE <<ScanParts(s, 1, <<>>)>>

parse_string_value(s) ==
    IF is_pure_reference(s).some
    THEN VReference(is_pure_reference(s).resource_type, is_pure_reference(s).key)
    ELSE IF parse_interpolated_parts(s) # <<>>
         THEN VInterpolated(parse_interpolated_parts(s)[1])
         ELSE VString(s)

(***************************************************************************)
(* The resolver, step by step: one emission of an interpolated string's    *)
(* constant (emit_string_resource), with the call stack made explicit.     *)
(***************************************************************************)
MaxStack == 16            \* frames on the resolver's call stack
MaxResolveEntries == 4    \* <string> declarations in the table the resolver is run on

\* The texts of the <string> declarations the resolver is run on.
ResolveTexts ==
    << [name |-> <<"a">>, text |-> <<"x", " ", "@", "string", "/", "b">>],
       [name |-> <<"b">>, text |-> <<"y", " ", "@", "string", "/", "a">>],
       [name |-> <<"c">>, text |-> <<"x", " ", "@", "string", "/", "c">>],
       [name |-> <<"t">>, text |-> <<"t">>],
       [name |-> <<"n">>, text |-> <<"@", "string", "/", "t", " ", "z", " ",
                                     "@", "string", "/", "z", "z">>],
       [name |-> <<"y">>, text |-> <<"@", "string", "/", "t">>],
       [name |-> <<"x">>, text |-> <<"a", " ", "@", "string", "/", "t", " ",
                                     "@", "string", "/", "y", " ",
                                     "@", "string", "/", "a", "b">>],
       [name |-> <<"a", "b">>, text |-> <<"b", " ", "@", "string", "/", "t">>],
       [name |-> <<"z">>, text |-> <<"@", "string", "/", "z">>],
       [name |-> <<"b", "a">>, text |-> <<"a", " ", "@", "string", "/", "z", " ",
                                          "@", "string", "/", "b", "c">>],
       [name |-> <<"b", "c">>, text |-> <<"@", "string", "/", "b", "a">>],
       [name |-> <<"d">>, text |-> <<"@", "string", "/", "t", " ", "@", "string", "/", "y", " ",
                                     "@", "string", "/", "t">>] >>

\* handle_string: the declaration is stored under "string" with its classified value
ResolvePool ==
    [i \in 1..Len(ResolveTexts) |->
        [kind |-> "string", name |-> ResolveTexts[i].name,
         value |-> parse_string_value(ResolveTexts[i].text)]]

push_str_front(result, piece) == piece \o result

\* String::push_str
push_str(result, piece) == result \o piece

NeverVisited(vis, ref_key) == FALSE

\* !visited.insert(ref_key): the token was already in the set
AlreadyVisited(vis, ref_key) == ref_key \in vis

\* a return that leaves the token in the set
remove_skipped(vis, ref_key) == vis

\* visited.remove(&ref_key)
remove(vis, ref_key) == vis \ {ref_key}

PartsFrame(parts) ==
    [f |-> "parts", parts |-> parts, result |-> <<>>,
     resource_type |-> "", key |-> <<>>, stage |-> "", r |-> None]

\* `entry` records the visited set the call is entered with
ResolveFrame(resource_type, key, entry) ==
    [f |-> "rsv", parts |-> <<>>, result |-> <<>>,
     resource_type |-> resource_type, key |-> key, stage |-> "enter", r |-> None,
     entry |-> entry]

Top == stack[Len(stack)]

Popped == SubSeq(stack, 1, Len(stack) - 1)

\* the caller's frame once the call it waits for has returned r
Resume(caller, r) ==
    IF caller.f = "parts"
    THEN [caller EXCEPT !.result = push_str(caller.result,
                                            IF r.some THEN r.s
                                            ELSE UnresolvedMarker(Head(caller.parts).key)),
                        !.parts = Tail(caller.parts)]
    ELSE [caller EXCEPT !.stage = "exit", !.r = r]

\* the stack and the emitted result after the top frame returns r
Return(r) ==
    /\ stack' = IF Len(stack) = 1 THEN <<>>
                ELSE Append(SubSeq(stack, 1, Len(stack) - 2), Resume(stack[Len(stack) - 1], r))
    /\ ret' = IF Len(stack) = 1 THEN <<r>> ELSE ret

Depth(stk) == Cardinality({i \in 1..Len(stk) : stk[i].f = "rsv"})

Push(frame) ==
    /\ Len(stack) < MaxStack
    /\ stack' = Append(stack, frame)
    /\ maxdepth' = IF Depth(stack') > maxdepth THEN Depth(stack') ELSE maxdepth

InterpolatedNames(all) ==
    {all["string"][i].name : i \in {i \in 1..Len(all["string"]) :
                                       all["string"][i].value.t = "InterpolatedString"}}

InitResolve ==
    /\ rtable \in {t \in Tables(ResolvePool, MaxResolveEntries) :
                     DOMAIN t # {} /\ InterpolatedNames(t) # {}}
    /\ rroot \in InterpolatedNames(rtable)
    /\ stack = <<>>
    /\ visited = {}
    /\ ret = <<>>
    /\ maxdepth = 0

\* emit_string_resource: let mut visited = HashSet::new(); resolve_interpolation_parts(parts, ..)
ResolveStart ==
    /\ stack = <<>> /\ ret = <<>> /\ maxdepth = 0
    /\ stack' = <<PartsFrame(FindValue(rtable, "string", rroot).parts)>>
    /\ visited' = {}
    /\ UNCHANGED <<rtable, rroot, ret, maxdepth>>

\* InterpolationPart::Text(text) => result.push_str(text)
PartsText ==
    /\ stack # <<>> /\ Top.f = "parts" /\ Top.parts # <<>> /\ Head(Top.parts).t = "Text"
    /\ stack' = Append(Popped, [Top EXCEPT !.result = push_str(Top.result, Head(Top.parts).text),
                                           !.parts = Tail(Top.parts)])
    /\ UNCHANGED <<rtable, rroot, visited, ret, maxdepth>>

\* InterpolationPart::Reference => resolve_string_value(resource_type, key, ..) is called
PartsReference ==
    /\ stack # <<>> /\ Top.f = "parts" /\ Top.parts # <<>> /\ Head(Top.parts).t = "Reference"
    /\ Push(ResolveFrame(Head(Top.parts).resource_type, Head(Top.parts).key, visited))
    /\ UNCHANGED <<rtable, rroot, visited, ret>>

\* resolve_interpolation_parts returns Some(result)
PartsReturn ==
    /\ stack # <<>> /\ Top.f = "parts" /\ Top.parts = <<>>
    /\ Return(Some(Top.result))
    /\ UNCHANGED <<rtable, rroot, visited, maxdepth>>

\* resolve_string_value finds its token in the visited set and returns None
ResolveVisited ==
    /\ stack # <<>> /\ Top.f = "rsv" /\ Top.stage = "enter"
    /\ AlreadyVisited(visited, RefKey(Top.resource_type, Top.key))
    /\ Return(None)
    /\ UNCHANGED <<rtable, rroot, visited, maxdepth>>

\* resolve_string_value inserts its token, looks the target up and hands its value
\* to extract_string_from_value
ResolveLookup ==
    /\ stack # <<>> /\ Top.f = "rsv" /\ Top.stage = "enter"
    /\ ~AlreadyVisited(visited, RefKey(Top.resource_type, Top.key))
    /\ visited' = visited \cup {RefKey(Top.resource_type, Top.key)}
    /\ LET found == HasKey(rtable, Top.resource_type, Top.key)
           value == FindValue(rtable, Top.resource_type, Top.key)
           waiting == Append(Popped, [Top EXCEPT !.stage = "wait"])
       IN IF ~found
          THEN /\ stack' = Append(Popped, [Top EXCEPT !.stage = "exit", !.r = None])
               /\ UNCHANGED maxdepth
          ELSE IF value.t = "String"
          THEN /\ stack' = Append(Popped, [Top EXCEPT !.stage = "exit", !.r = Some(value.s)])
               /\ UNCHANGED maxdepth
          ELSE IF value.t = "Reference"
          THEN /\ Len(stack) < MaxStack
               /\ stack' = Append(waiting, ResolveFrame(value.resource_type, value.key, visited'))
               /\ maxdepth' = IF Depth(stack') > maxdepth THEN Depth(stack') ELSE maxdepth
          ELSE IF value.t = "InterpolatedString"
          THEN /\ Len(stack) < MaxStack
               /\ stack' = Append(waiting, PartsFrame(value.parts))
               /\ UNCHANGED maxdepth
          ELSE /\ stack' = Append(Popped, [Top EXCEPT !.stage = "exit", !.r = None])
               /\ UNCHANGED maxdepth
    /\ UNCHANGED <<rtable, rroot, ret>>

\* visited.remove(&ref_key); result
ResolveReturn ==
    /\ stack # <<>> /\ Top.f = "rsv" /\ Top.stage = "exit"
    /\ visited' = remove(visited, RefKey(Top.resource_type, Top.key))
    /\ Return(Top.r)
    /\ UNCHANGED <<rtable, rroot, maxdepth>>

Resolve ==
    \/ ResolveStart
    \/ PartsText
    \/ PartsReference
    \/ PartsReturn
    \/ ResolveVisited
    \/ ResolveLookup
    \/ ResolveReturn

IdleBuild ==
    /\ res_dir_exists = FALSE
    /\ resources = load_all_resources(<<>>)
    /\ tests_res_dir = <<>>
    /\ ref_errors = <<>>
    /\ test_code = <<>>
    /\ cfg_has_tests = FALSE
    /\ code = <<>>
    /\ r_generated = <<>>
    /\ exit_status = "none"
    /\ prev_code = <<>>
    /\ prev_status = "none"
    /\ runs = 0
    /\ malformed = 0
    /\ number_decl = <<>>
    /\ writes = 0

NextResolve == Resolve /\ UNCHANGED <<buildVars, templateVars, parseVars, numberVars, loadVars, treeVars, classifyVars, profileVars, aliasVars>>

\* the resolver is sequential code: it keeps taking its next step
StartResolve == InitResolve /\ IdleBuild /\ IdleTemplate /\ IdleParse /\ IdleNumber /\ IdleLoad /\ IdleTree /\ IdleClassify /\ IdleProfile /\ IdleAlias

SpecResolve ==
    /\ StartResolve
    /\ [][NextResolve]_vars
    /\ WF_vars(NextResolve)

Finished == ret # <<>>

\* the step machine computes what the recursive definition computes
StepsAgree ==
    Finished => ret[1] = resolve_interpolation_parts(FindValue(rtable, "string", rroot).parts,
                                                     rtable, {})

StackBelowCap == Len(stack) < MaxStack

(***************************************************************************)
(* Properties of the resolver.                                             *)
(***************************************************************************)
RootValue == FindValue(rtable, "string", rroot)

\* the references a value holds, as <<kind, key>>
RefsOf(value) ==
    CASE value.t = "Reference" -> {<<value.resource_type, value.key>>}
      [] value.t = "InterpolatedString" ->
             {<<value.parts[i].resource_type, value.parts[i].key>> :
                 i \in {i \in 1..Len(value.parts) : value.parts[i].t = "Reference"}}
      [] OTHER -> {}

Exists(all, ref) == HasKey(all, ref[1], ref[2])

RECURSIVE ReachN(_, _, _)
\* the references met within n hops from the references S
ReachN(all, S, n) ==
    IF n = 0 THEN S
    ELSE ReachN(all, S \cup UNION {RefsOf(FindValue(all, ref[1], ref[2])) :
                                      ref \in {ref \in S : Exists(all, ref)}}, n - 1)

ReachableFrom(all, value) == ReachN(all, RefsOf(value), Cardinality(Declared(all)))

\* the reference `ref` lies on a cycle of references
OnCycle(all, ref) == Exists(all, ref) /\ ref \in ReachableFrom(all, FindValue(all, ref[1], ref[2]))

\* the text of a reference part in the declaration
SourceMarker(part) == <<"@", part.resource_type, "/">> \o part.key

\* every distinct kind:key token a reference of the table can put into `visited`
Tokens(all) ==
    UNION {{RefKey(ref[1], ref[2]) : ref \in RefsOf(ValueOf(all, d))} : d \in Declared(all)}

RECURSIVE Ultimate(_, _, _)
\* The ultimate string value of a value, following pure references and interpolations
\* for at most `fuel` hops; None when a target is missing, is no string, or the
\* chain does not end.
Ultimate(value, all, fuel) ==
    LET target(rt, key) == IF fuel > 0 /\ HasKey(all, rt, key)
                           THEN Ultimate(FindValue(all, rt, key), all, fuel - 1)
                           ELSE None
    IN CASE value.t = "String" -> Some(value.s)
         [] value.t = "Reference" -> target(value.resource_type, value.key)
         [] value.t = "InterpolatedString" ->
                LET piece(part) == IF part.t = "Text" THEN Some(part.text)
                                   ELSE target(part.resource_type, part.key)
                IN IF \A i \in 1..Len(value.parts) : piece(value.parts[i]).some
                   THEN Some(Flatten([i \in 1..Len(value.parts) |-> piece(value.parts[i]).s]))
                   ELSE None
         [] OTHER -> None

UltimateOf(value, all) == Ultimate(value, all, Cardinality(Declared(all)))

RECURSIVE CycleRendering(_, _, _)
\* An interpolation's text when each reference back to a resource that is being
\* resolved (a token of `active`) renders as its marker and every other reference
\* is expanded once.
CycleRendering(parts, all, active) ==
    Flatten([i \in 1..Len(parts) |->
        LET part == parts[i] IN
        IF part.t = "Text" THEN part.text
        ELSE IF RefKey(part.resource_type, part.key) \in active THEN SourceMarker(part)
        ELSE LET value == FindValue(all, part.resource_type, part.key) IN
             IF value.t = "String" THEN value.s
             ELSE CycleRendering(value.parts, all,
                                 active \cup {RefKey(part.resource_type, part.key)})])

\* everything the root reaches exists and is a plain or an interpolated string
OnlyInterpolations ==
    \A ref \in ReachableFrom(rtable, RootValue) :
        /\ Exists(rtable, ref)
        /\ FindValue(rtable, ref[1], ref[2]).t \in {"String", "InterpolatedString"}

CycleAhead ==
    \/ <<"string", rroot>> \in ReachableFrom(rtable, RootValue)
    \/ \E ref \in ReachableFrom(rtable, RootValue) : OnCycle(rtable, ref)

\* C5: when the interpolations the emitted string reaches form a cycle, the
\* resolver returns a text in which the reference closing the cycle is its
\* marker @kind/key and no resource's text is expanded twice.
C5_CycleMarker ==
    (Finished /\ OnlyInterpolations /\ CycleAhead) =>
        ret[1] = Some(CycleRendering(RootValue.parts, rtable, {RefKey("string", rroot)}))

MissingKeyParts ==
    {i \in 1..Len(RootValue.parts) :
        /\ RootValue.parts[i].t = "Reference"
        /\ HasKind(rtable, RootValue.parts[i].resource_type)
        /\ ~HasKey(rtable, RootValue.parts[i].resource_type, RootValue.parts[i].key)}

\* the other reference parts of the root resolve to a string
OthersResolve ==
    \A i \in 1..Len(RootValue.parts) :
        (RootValue.parts[i].t = "Reference" /\ i \notin MissingKeyParts) =>
            UltimateOf(VReference(RootValue.parts[i].resource_type, RootValue.parts[i].key),
                       rtable).some

\* C7: an interpolated string with a reference to a missing key of an existing
\* kind raises no validation error and is emitted with that reference's marker
\* text in place and all its other parts resolved in their positions.
C7_MissingKeyMarker ==
    (Finished /\ MissingKeyParts # {} /\ OthersResolve) =>
        /\ ValidateItem(rtable, "string", [name |-> rroot, value |-> RootValue]) = <<>>
        /\ ret[1] = Some(Flatten([i \in 1..Len(RootValue.parts) |->
                        LET part == RootValue.parts[i] IN
                        IF part.t = "Text" THEN part.text
                        ELSE IF i \in MissingKeyParts THEN SourceMarker(part)
                        ELSE UltimateOf(VReference(part.resource_type, part.key), rtable).s]))

TargetKinds == {FindValue(rtable, ref[1], ref[2]).t :
                   ref \in {ref \in RefsOf(RootValue) : Exists(rtable, ref)}}

EnteredTokens(stk) ==
    {RefKey(stk[i].resource_type, stk[i].key) :
        i \in {i \in 1..Len(stk) : stk[i].f = "rsv" /\ stk[i].stage # "enter"}}

VisitedIsStack == visited = EnteredTokens(stack)

\* a call that finds its token in the set is nested in a call for the same target
CycleOnlyOnStack ==
    (stack # <<>> /\ Top.f = "rsv" /\ Top.stage = "enter"
         /\ AlreadyVisited(visited, RefKey(Top.resource_type, Top.key))) =>
        \E i \in 1..(Len(stack) - 1) :
            /\ stack[i].f = "rsv" /\ stack[i].stage = "wait"
            /\ stack[i].resource_type = Top.resource_type /\ stack[i].key = Top.key

\* no reference met from the root is missing or lies on a cycle
Acyclic ==
    \A ref \in ReachableFrom(rtable, RootValue) : Exists(rtable, ref) /\ ~OnCycle(rtable, ref)

\* without a cycle every reference is resolved, however often its target is met
NoFalseCycle ==
    (Finished /\ Acyclic) => ret[1].some /\ Count(ret[1].s, "@") = 0

\* a return of resolve_string_value leaves the set as the call found it
ReturnRestores ==
    (stack # <<>> /\ Top.f = "rsv" /\ Len(stack') < Len(stack)) => visited' = Top.entry

\* C29: resolve_string_value returns, on every path, with the visited set as it
\* was at entry, so the set holds exactly the tokens of the calls in progress;
\* a target referenced twice in one string or reached by two non-cyclic paths
\* is resolved each time and never taken for a cycle.
C29_VisitedPopped ==
    [](VisitedIsStack /\ CycleOnlyOnStack /\ NoFalseCycle) /\ [][ReturnRestores]_vars

\* the root names one target twice and reaches it once more through an alias
C29_Witness ==
    /\ Finished /\ Acyclic
    /\ \E i, j \in 1..Len(RootValue.parts) :
           /\ i < j
           /\ RootValue.parts[i].t = "Reference" /\ RootValue.parts[j] = RootValue.parts[i]
           /\ \E k \in 1..Len(RootValue.parts) :
                  /\ RootValue.parts[k].t = "Reference"
                  /\ FindValue(rtable, RootValue.parts[k].resource_type,
                               RootValue.parts[k].key)
                         = VReference(RootValue.parts[i].resource_type, RootValue.parts[i].key)
    /\ ret[1] = Some(<<"t", " ", "t", " ", "t">>)

(***************************************************************************)
(* A template function: emit_template_function writes it at build time,    *)
(* the including crate compiles it and calls it.                           *)
(***************************************************************************)
\* The <template> declarations, as the Template values the generator is given
\* (text with {name} placeholders, typed parameters).
TemplatePool ==
    << [leaf_name |-> <<"g", "r", "e", "e", "t", "i", "n", "g">>,
        value |-> VTemplate(<<"H", "e", "l", "l", "o", " ", "{", "n", "a", "m", "e", "}",
                           ",", " ", "y", "o", "u", " ", "h", "a", "v", "e", " ", "{",
                           "c", "o", "u", "n", "t", "}", " ", "m", "e", "s", "s", "a",
                           "g", "e", "s", "!">>,
                           <<[name |-> <<"n", "a", "m", "e">>, param_type |-> "String"], [name |-> <<"c", "o", "u", "n", "t">>, param_type |-> "Int"]>>)],
       [leaf_name |-> <<"s", "t", "a", "t", "u", "s">>,
        value |-> VTemplate(<<"U", "s", "e", "r", " ", "{", "n", "a", "m", "e", "}", " ",
                           "i", "s", " ", "{", "a", "c", "t", "i", "v", "e", "}">>,
                           <<[name |-> <<"n", "a", "m", "e">>, param_type |-> "String"], [name |-> <<"a", "c", "t", "i", "v", "e">>, param_type |-> "Bool"]>>)],
       [leaf_name |-> <<"t", "w", "i", "c", "e">>,
        value |-> VTemplate(<<"{", "x", "}", " ", "{", "x", "}">>,
                           <<[name |-> <<"x">>, param_type |-> "String"]>>)],
       [leaf_name |-> <<"s", "w", "a", "p">>,
        value |-> VTemplate(<<"{", "y", "}", "{", "x", "}">>,
                           <<[name |-> <<"x">>, param_type |-> "String"], [name |-> <<"y">>, param_type |-> "Int"]>>)],
       [leaf_name |-> <<"p", "l", "a", "i", "n">>,
        value |-> VTemplate(<<"a", "b", "c">>,
                           <<>>)],
       [leaf_name |-> <<"q", "u", "o", "t", "e">>,
        value |-> VTemplate(<<"s", "a", "y", " ", "\"", "{", "x", "}", "\"">>,
                           <<[name |-> <<"x">>, param_type |-> "String"]>>)],
       [leaf_name |-> <<"b", "r", "a", "c", "e">>,
        value |-> VTemplate(<<"a", "}", " ", "{", "x", "}">>,
                           <<[name |-> <<"x">>, param_type |-> "String"]>>)],
       [leaf_name |-> <<"o", "p", "e", "n">>,
        value |-> VTemplate(<<"{", "x", "}", " ", "{">>,
                           <<[name |-> <<"x">>, param_type |-> "String"]>>)],
       [leaf_name |-> <<"o", "t", "h", "e", "r">>,
        value |-> VTemplate(<<"{", "q", "}", " ", "{", "x", "}">>,
                           <<[name |-> <<"x">>, param_type |-> "String"]>>)],
       [leaf_name |-> <<"u", "n", "k", "n", "o", "w", "n">>,
        value |-> VTemplate(<<"a", " ", "{", "q", "}", " ", "b">>,
                           <<>>)],
       [leaf_name |-> <<"s", "a", "i", "d">>,
        value |-> VTemplate(<<"s", "a", "y", " ", "\"", "h", "i", "\"">>,
                           <<>>)],
       [leaf_name |-> <<"p", "a", "t", "h">>,
        value |-> VTemplate(<<"a", "\\", "b">>,
                           <<>>)],
       [leaf_name |-> <<"l", "i", "n", "e", "s">>,
        value |-> VTemplate(<<"a", "\n", "{", "x", "}", "\\">>,
                           <<[name |-> <<"x">>, param_type |-> "String"]>>)] >>

StringArgs == {<<"A", "l", "i", "c", "e">>, <<"B", "o", "b">>, <<>>, <<"x", " ", "y">>, <<"{", "}">>, <<"a">>}

IntArgs == {5, 0, -1, 12, 7}

ArgsOfType(param_type) ==
    CASE param_type = "String" -> {[t |-> "String", s |-> a, v |-> 0, b |-> FALSE] : a \in StringArgs}
      [] param_type = "Int" -> {[t |-> "Int", s |-> <<>>, v |-> n, b |-> FALSE] : n \in IntArgs}
      [] param_type = "Bool" -> {[t |-> "Bool", s |-> <<>>, v |-> 0, b |-> x] : x \in BOOLEAN}
      [] OTHER -> {}

\* std::fmt::Display of an argument
Display(arg) ==
    CASE arg.t = "String" -> arg.s
      [] arg.t = "Int" -> IntToStr(arg.v)
      [] arg.t = "Bool" -> IF arg.b THEN <<"t", "r", "u", "e">> ELSE <<"f", "a", "l", "s", "e">>

Failed == [ok |-> FALSE, s |-> <<>>]
Ok(s) == [ok |-> TRUE, s |-> s]

RECURSIVE RustLiteral(_)
\* The string a Rust string literal with this text between its quotes denotes; Failed
\* when the text is no literal (a bare quote ends it early, \{ and \} are no escapes).
RustLiteral(text) ==
    IF text = <<>> THEN Ok(<<>>)
    ELSE IF Head(text) = "\"" THEN Failed
    ELSE IF Head(text) = "\\"
         THEN IF Len(text) >= 2 /\ text[2] \in {"\\", "\"", "n"}
              THEN LET rest == RustLiteral(SubSeq(text, 3, Len(text)))
                   IN IF rest.ok
                      THEN Ok(<<IF text[2] = "n" THEN "\n" ELSE text[2]>> \o rest.s)
                      ELSE Failed
              ELSE Failed
         ELSE LET rest == RustLiteral(Tail(text))
              IN IF rest.ok THEN Ok(<<Head(text)>> \o rest.s) ELSE Failed

RECURSIVE FormatArgs(_, _)
\* format!(fmt, args..): each {} takes the next argument, {{ and }} are braces; Failed
\* (the macro rejects the call) on any other brace and on arguments left over.
FormatArgs(fmt, args) ==
    IF fmt = <<>> THEN (IF args = <<>> THEN Ok(<<>>) ELSE Failed)
    ELSE LET two == IF Len(fmt) >= 2 THEN SubSeq(fmt, 1, 2) ELSE <<>>
             after(n, out, left) == LET rest == FormatArgs(SubSeq(fmt, n + 1, Len(fmt)), left)
                                    IN IF rest.ok THEN Ok(out \o rest.s) ELSE Failed
         IN CASE two = <<"{", "{">> -> after(2, <<"{">>, args)
              [] two = <<"}", "}">> -> after(2, <<"}">>, args)
              [] two = <<"{", "}">> -> IF args = <<>> THEN Failed
                                       ELSE after(2, Display(Head(args)), Tail(args))
              [] OTHER -> IF Head(fmt) \in {"{", "}"} THEN Failed
                          ELSE after(1, <<Head(fmt)>>, args)

\* What a call of the written function returns; Failed when the function does not
\* compile.  `args` are the call's arguments, in the order of the parameters.
CallGenerated(fn, args) ==
    LET literal == RustLiteral(fn.text)
        bound(name) == args[CHOOSE i \in 1..Len(fn.params) : fn.params[i].name = name]
    IN IF ~literal.ok THEN Failed
       ELSE IF fn.body = "lit" THEN literal
       ELSE IF \A i \in 1..Len(fn.args) : \E j \in 1..Len(fn.params) : fn.params[j].name = fn.args[i]
            THEN FormatArgs(literal.s, [i \in 1..Len(fn.args) |-> bound(fn.args[i])])
            ELSE Failed

InitTemplate ==
    /\ tpl \in Range(TemplatePool)
    /\ tpl_out = <<>>
    /\ tpl_args = <<>>

\* emit_string_resource on a ResourceValue::Template
EmitTemplate ==
    /\ tpl_out = <<>>
    /\ tpl_out' = emit_string_resource(to_uppercase(sanitize_identifier(tpl.leaf_name)), tpl,
                                       load_all_resources(<<>>))
    /\ UNCHANGED <<tpl, tpl_args>>

\* the including crate calls the function
CallTemplate ==
    /\ Len(tpl_out) = 1
    /\ \E args \in {a \in [1..Len(tpl.value.parameters) -> UNION {ArgsOfType(ty) : ty \in {"String", "Int", "Bool"}}] :
                       \A i \in 1..Len(tpl.value.parameters) :
                           a[i] \in ArgsOfType(tpl.value.parameters[i].param_type)} :
           /\ tpl_args' = args
           /\ tpl_out' = Append(tpl_out, CallGenerated(tpl_out[1], args))
    /\ UNCHANGED tpl

Template == EmitTemplate \/ CallTemplate

NextTemplate == Template /\ UNCHANGED <<buildVars, resolveVars, parseVars, numberVars, loadVars, treeVars, classifyVars, profileVars, aliasVars>>

StartTemplate == InitTemplate /\ IdleBuild /\ IdleResolve /\ IdleParse /\ IdleNumber /\ IdleLoad /\ IdleTree /\ IdleClassify /\ IdleProfile /\ IdleAlias

SpecTemplate == StartTemplate /\ [][NextTemplate]_vars

(***************************************************************************)
(* Properties of a template function.                                      *)
(***************************************************************************)
Called == Len(tpl_out) = 2

RECURSIVE PlaceholdersFrom(_, _)
\* the {name} occurrences of a template text from position pos on, left to right
PlaceholdersFrom(text, pos) ==
    LET open == FindFrom(text, "{", pos)
        close == IF open = 0 THEN 0 ELSE FindFrom(text, "}", open + 1)
    IN IF close = 0 THEN <<>>
       ELSE <<SubSeq(text, open + 1, close - 1)>> \o PlaceholdersFrom(text, close + 1)

\* every { of the text opens a placeholder, and every placeholder names a parameter
AllPlaceholdersMatch ==
    /\ Count(tpl.value.template, "{") = Len(PlaceholdersFrom(tpl.value.template, 1))
    /\ \A i \in 1..Len(PlaceholdersFrom(tpl.value.template, 1)) :
           FindParam(tpl.value.parameters, PlaceholdersFrom(tpl.value.template, 1)[i]) # 0

RECURSIVE SubstitutedFrom(_, _, _, _)
\* the template text from pos on with every {name} replaced by the display form of
\* the argument given for the parameter `name`
SubstitutedFrom(text, pos, parameters, args) ==
    LET open == FindFrom(text, "{", pos)
        close == IF open = 0 THEN 0 ELSE FindFrom(text, "}", open + 1)
    IN IF close = 0 THEN SubSeq(text, pos, Len(text))
       ELSE SubSeq(text, pos, open - 1)
                \o Display(args[FindParam(parameters, SubSeq(text, open + 1, close - 1))])
                \o SubstitutedFrom(text, close + 1, parameters, args)

\* the {} slots of a format string
Slots(format_str) ==
    Cardinality({i \in 1..(Len(format_str) - 1) : format_str[i] = "{" /\ format_str[i + 1] = "}"})

\* C9: the function generated for a template whose placeholders all match
\* parameters returns the template text with each {name} replaced, left to
\* right, by the display form of that argument, and its format string has as
\* many slots as arguments.
C9_TemplateSubstitution ==
    (Called /\ AllPlaceholdersMatch) =>
        /\ tpl_out[2] = Ok(SubstitutedFrom(tpl.value.template, 1, tpl.value.parameters, tpl_args))
        /\ Slots(tpl_out[1].text) = Len(tpl_out[1].args)

\* the greeting of the specification's example
GreetingExample ==
    (/\ Called
     /\ tpl = TemplatePool[1]
     /\ Display(tpl_args[1]) = <<"A", "l", "i", "c", "e">>
     /\ Display(tpl_args[2]) = <<"5">>)
        => tpl_out[2].s = <<"H", "e", "l", "l", "o", " ", "A", "l", "i", "c", "e", ",", " ",
                            "y", "o", "u", " ", "h", "a", "v", "e", " ", "5", " ",
                            "m", "e", "s", "s", "a", "g", "e", "s", "!">>

\* the brace pairs of the text pair up: as many { and } as there are pairs
WellBraced ==
    /\ Count(tpl.value.template, "{") = Len(PlaceholdersFrom(tpl.value.template, 1))
    /\ Count(tpl.value.template, "}") = Len(PlaceholdersFrom(tpl.value.template, 1))

HasSpecial == \E i \in 1..Len(tpl.value.template) : tpl.value.template[i] \in {"\"", "\\", "\n"}

\* a brace pair of the text names no declared parameter
HasUnknownToken ==
    \E i \in 1..Len(PlaceholdersFrom(tpl.value.template, 1)) :
        FindParam(tpl.value.parameters, PlaceholdersFrom(tpl.value.template, 1)[i]) = 0

RECURSIVE ExpandedFrom(_, _, _, _)
\* the template text from pos on with {name} replaced by the argument when name is
\* a parameter, and left as it is written when it is not
ExpandedFrom(text, pos, parameters, args) ==
    LET open == FindFrom(text, "{", pos)
        close == IF open = 0 THEN 0 ELSE FindFrom(text, "}", open + 1)
    IN IF close = 0 THEN SubSeq(text, pos, Len(text))
       ELSE SubSeq(text, pos, open - 1)
                \o (IF FindParam(parameters, SubSeq(text, open + 1, close - 1)) # 0
                    THEN Display(args[FindParam(parameters, SubSeq(text, open + 1, close - 1))])
                    ELSE SubSeq(text, open, close))
                \o ExpandedFrom(text, close + 1, parameters, args)

\* C24: the generated function of a template with a brace pair {token} that names
\* no parameter compiles and returns the text with '{token}' as written, with
\* and without other placeholders that match.
C24_UnknownTokenVerbatim ==
    (Called /\ WellBraced /\ ~HasSpecial /\ HasUnknownToken) =>
        tpl_out[2] = Ok(ExpandedFrom(tpl.value.template, 1, tpl.value.parameters, tpl_args))

\* C25: the generated function of a template whose literal text holds a double
\* quote, a backslash or a newline returns that text exactly as written around
\* the substituted placeholders, also when the template has no placeholder.
C25_LiteralEscaped ==
    (Called /\ WellBraced /\ HasSpecial /\ ~HasUnknownToken) =>
        tpl_out[2] = Ok(ExpandedFrom(tpl.value.template, 1, tpl.value.parameters, tpl_args))

(***************************************************************************)
(* The streaming reader (generator/parsing/reader).  An event is           *)
(* [e, tag, name, type, spec, text]; an absent attribute or Option is <<>>, *)
(* a present one <<x>>.  Tag names are kept as one token.                  *)
(***************************************************************************)
EStart(tag, name) == [e |-> "Start", tag |-> tag, name |-> name, type |-> <<>>,
                      spec |-> <<>>, text |-> <<>>]
EEmpty(tag, name) == [e |-> "Empty", tag |-> tag, name |-> name, type |-> <<>>,
                      spec |-> <<>>, text |-> <<>>]
EText(text) == [e |-> "Text", tag |-> "", name |-> <<>>, type |-> <<>>,
                spec |-> <<>>, text |-> text]
EEnd(tag) == [e |-> "End", tag |-> tag, name |-> <<>>, type |-> <<>>,
              spec |-> <<>>, text |-> <<>>]
\* <!-- .. -->, one of the events the reader's loop passes over
EComment == [e |-> "Comment", tag |-> "", name |-> <<>>, type |-> <<>>,
             spec |-> <<>>, text |-> <<>>]

\* ResourceKind::from_str
from_str(tag) ==
    CASE tag = "ns" -> "Namespace"
      [] tag = "template" -> "Template"
      [] tag = "array" -> "Array"
      [] tag = "string" -> "String"
      [] tag \in {"number", "int", "float"} -> "Number"
      [] tag = "bool" -> "Bool"
      [] tag = "color" -> "Color"
      [] tag = "item" -> "Item"
      [] OTHER -> "String"

\* ParseState::default()
DefaultParseState ==
    [current_tag |-> "", current_name |-> <<>>, namespace_stack |-> <<>>,
     current_number_type |-> <<>>, template_params |-> <<>>, template_text |-> <<>>,
     in_template |-> FALSE, in_array |-> FALSE, array_type |-> <<>>, array_spec |-> <<>>,
     array_items |-> <<>>, pending_doc |-> <<>>, in_doc |-> FALSE, doc_text |-> <<>>]

RECURSIVE TrimStart(_)
TrimStart(s) == IF s # <<>> /\ Head(s) \in {" ", "\n"} THEN TrimStart(Tail(s)) ELSE s

RECURSIVE TrimEnd(_)
TrimEnd(s) ==
    IF s # <<>> /\ s[Len(s)] \in {" ", "\n"} THEN TrimEnd(SubSeq(s, 1, Len(s) - 1)) ELSE s

\* str::trim
Trim(s) == TrimEnd(TrimStart(s))

\* namespace_stack.join("/")
JoinSlash(names) ==
    Flatten([i \in 1..Len(names) |-> (IF i > 1 THEN <<"/">> ELSE <<>>) \o names[i]])

build_resource_name(state, e) ==
    IF e.name = <<>> THEN <<>>
    ELSE IF state.namespace_stack = <<>> THEN e.name
    ELSE <<JoinSlash(state.namespace_stack) \o <<"/">> \o e.name[1]>>

handle_ns(state, e) ==
    [state EXCEPT !.namespace_stack = IF e.name # <<>> THEN Append(@, e.name[1]) ELSE @,
                  !.current_name = <<>>]

handle_template(state) ==
    [state EXCEPT !.in_template = TRUE, !.template_params = <<>>, !.template_text = <<>>]

handle_array(state, e) ==
    [state EXCEPT !.in_array = TRUE, !.array_type = e.type, !.array_spec = e.spec,
                  !.array_items = <<>>, !.current_name = build_resource_name(state, e)]

handle_doc(state) == [state EXCEPT !.in_doc = TRUE, !.doc_text = <<>>]

\* the parameter's placeholder value, <<>> when the kind gives none
ParamValue(kind, number_type) ==
    CASE kind = "String" -> <<[t |-> "Text", s |-> <<>>]>>
      [] kind = "Number" -> <<[t |-> "Number", s |-> <<>>, explicit_type |-> number_type]>>
      [] kind = "Bool" -> <<[t |-> "Bool", b |-> FALSE]>>
      [] kind = "Color" -> <<[t |-> "Color", s |-> <<>>]>>
      [] OTHER -> <<>>

\* [handled, state]
handle_template_param(state, kind, param_name, number_type) ==
    IF param_name = <<>> \/ ParamValue(kind, number_type) = <<>>
    THEN [handled |-> FALSE, state |-> state]
    ELSE [handled |-> TRUE,
          state |-> [state EXCEPT
                        !.template_params = Append(@, [name |-> param_name[1],
                                                       value |-> ParamValue(kind, number_type)[1]]),
                        !.current_tag = "template"]]

handle_start(state0, e) ==
    LET state == [state0 EXCEPT !.current_tag = e.tag]
        kind == from_str(e.tag)
    IN CASE kind = "Namespace" -> handle_ns(state, e)
         [] kind = "Array" -> handle_array(state, e)
         [] kind = "Item" -> state
         [] kind = "Doc" -> handle_doc(state)
         [] OTHER ->
              LET state1 == IF kind = "Template" THEN handle_template(state) ELSE state
                  number_type == IF kind = "Number" THEN e.type ELSE <<>>
                  param_name == build_resource_name(state1, e)
                  param == handle_template_param(state1, kind, param_name, number_type)
              IN IF state1.in_template /\ kind # "Template" /\ param.handled
                 THEN param.state
                 ELSE [state1 EXCEPT !.current_number_type = number_type,
                                     !.current_name = param_name]

ParsedResource(name, kind, value, doc) ==
    [name |-> name, kind |-> kind, value |-> value, doc |-> doc]

\* [state, res]: res is <<>> for None, <<r>> for Some(r)
handle_doc_text(state, text, kind) ==
    [state |-> IF kind = "Doc" /\ Trim(text) # <<>>
               THEN [state EXCEPT !.doc_text = (IF @ # <<>> THEN @ \o <<" ">> ELSE @) \o Trim(text)]
               ELSE state,
     res |-> <<>>]

handle_array_item(state, text, kind) ==
    [state |-> IF kind = "Item" /\ Trim(text) # <<>>
               THEN [state EXCEPT !.array_items = Append(@, Trim(text))]
               ELSE state,
     res |-> <<>>]

handle_template_text(state, text, kind) ==
    [state |-> IF kind = "Template" /\ Trim(text) # <<>>
               THEN [state EXCEPT !.template_text = @ \o Trim(text) \o <<" ">>]
               ELSE state,
     res |-> <<>>]

\* a test that takes every text for a boolean
AnyBoolText(s) == TRUE

\* value.parse::<bool>().is_ok()
IsBoolText(s) == s \in {<<"t", "r", "u", "e">>, <<"f", "a", "l", "s", "e">>}

handle_normal_resource(state, text, kind) ==
    IF state.current_name = <<>> \/ Trim(text) = <<>> THEN [state |-> state, res |-> <<>>]
    ELSE LET name == state.current_name[1]
             trimmed == Trim(text)
             doc == state.pending_doc
             taken == [state EXCEPT !.pending_doc = <<>>]
         IN CASE kind = "String" ->
                   [state |-> taken,
                    res |-> <<ParsedResource(name, "String", [t |-> "Text", s |-> trimmed], doc)>>]
              [] kind = "Number" ->
                   [state |-> taken,
                    res |-> <<ParsedResource(name, "Number",
                                             [t |-> "Number", s |-> trimmed,
                                              explicit_type |-> state.current_number_type], doc)>>]
              [] kind = "Bool" ->
                   [state |-> taken,
                    res |-> IF IsBoolText(trimmed)
                            THEN <<ParsedResource(name, "Bool",
                                                  [t |-> "Bool", b |-> trimmed = <<"t", "r", "u", "e">>],
                                                  doc)>>
                            ELSE <<>>]
              [] kind = "Color" ->
                   [state |-> taken,
                    res |-> <<ParsedResource(name, "Color", [t |-> "Color", s |-> trimmed], doc)>>]
              [] kind = "Template" ->
                   [state |-> [taken EXCEPT !.template_text = @ \o trimmed \o <<" ">>],
                    res |-> <<>>]
              [] OTHER -> [state |-> taken, res |-> <<>>]

handle_mid(state, text) ==
    LET kind == from_str(state.current_tag) IN
    IF state.in_doc THEN handle_doc_text(state, text, kind)
    ELSE IF state.in_array THEN handle_array_item(state, text, kind)
    ELSE IF state.in_template THEN handle_template_text(state, text, kind)
    ELSE handle_normal_resource(state, text, kind)

handle_ns_end(state) ==
    [state EXCEPT !.namespace_stack = IF @ = <<>> THEN @ ELSE SubSeq(@, 1, Len(@) - 1)]

handle_doc_end(state) ==
    [state EXCEPT !.pending_doc = IF Trim(state.doc_text) = <<>> THEN <<>>
                                  ELSE <<Trim(state.doc_text)>>,
                  !.in_doc = FALSE, !.doc_text = <<>>]

handle_array_end(state) ==
    IF state.current_name = <<>> THEN [state |-> state, res |-> <<>>]
    ELSE [state |-> [state EXCEPT !.in_array = FALSE, !.array_type = <<>>, !.array_spec = <<>>,
                                  !.array_items = <<>>, !.current_name = <<>>,
                                  !.pending_doc = <<>>],
          res |-> <<ParsedResource(state.current_name[1], "Array",
                       [t |-> "Array",
                        element_type |-> IF state.array_type = <<>> THEN "string"
                                         ELSE state.array_type[1],
                        spec |-> state.array_spec, items |-> state.array_items],
                       state.pending_doc)>>]

handle_template_end(state) ==
    IF state.current_name = <<>> THEN [state |-> state, res |-> <<>>]
    ELSE [state |-> [state EXCEPT !.in_template = FALSE, !.template_params = <<>>,
                                  !.template_text = <<>>, !.current_name = <<>>,
                                  !.pending_doc = <<>>],
          res |-> <<ParsedResource(state.current_name[1], "Template",
                       [t |-> "Template", s |-> Trim(state.template_text),
                        params |-> state.template_params],
                       state.pending_doc)>>]

handle_item_end(state) == [state EXCEPT !.current_tag = ""]

\* [handled, state]
handle_template_param_end(state, kind) ==
    IF state.in_template /\ kind \in {"String", "Number", "Bool", "Color"}
    THEN [handled |-> TRUE, state |-> [state EXCEPT !.current_name = <<>>]]
    ELSE [handled |-> FALSE, state |-> state]

handle_normal_resource_end(state, kind) ==
    [state EXCEPT !.current_name = IF kind \in {"String", "Number", "Bool", "Color",
                                                "Template", "Array"}
                                   THEN <<>> ELSE @,
                  !.current_number_type = IF kind = "Number" THEN <<>> ELSE @,
                  !.current_tag = ""]

handle_end(state, e) ==
    LET kind == from_str(e.tag) IN
    CASE kind = "Namespace" -> [state |-> handle_ns_end(state), res |-> <<>>]
      [] kind = "Array" -> handle_array_end(state)
      [] kind = "Template" -> handle_template_end(state)
      [] kind = "Item" -> [state |-> handle_item_end(state), res |-> <<>>]
      [] kind = "Doc" -> [state |-> handle_doc_end(state), res |-> <<>>]
      [] OTHER ->
           IF state.in_template /\ handle_template_param_end(state, kind).handled
           THEN [state |-> handle_template_param_end(state, kind).state, res |-> <<>>]
           ELSE [state |-> handle_normal_resource_end(state, kind), res |-> <<>>]

(***************************************************************************)
(* parse_single_file on one document, followed by the generation of the    *)
(* text from what was parsed.                                              *)
(***************************************************************************)
GroupNames == {<<"u", "i">>, <<"c", "o", "l", "o", "r", "s">>, <<"m", "y", "-", "g">>}

DeclNames == {<<"p", "r", "i", "m", "a", "r", "y">>, <<"m", "y", "-", "n">>, <<"x", "/", "y">>}

Declaration(n, text) == <<EStart("string", <<n>>), EText(text), EEnd("string")>>

InResources(body) == <<EStart("resources", <<>>)>> \o body \o <<EEnd("resources")>>

\* <ns name=g1><ns name=g2><string name=n>v</string></ns></ns>
NestedDoc(g1, g2, n) ==
    InResources(<<EStart("ns", <<g1>>), EStart("ns", <<g2>>)>> \o Declaration(n, <<"v">>)
                    \o <<EEnd("ns"), EEnd("ns")>>)

\* <ns name=g1><string name=n>v</string></ns><string name=m>w</string>
FollowingDoc(g1, n, m) ==
    InResources(<<EStart("ns", <<g1>>)>> \o Declaration(n, <<"v">>) \o <<EEnd("ns")>>
                    \o Declaration(m, <<"w">>))

\* <ns name=g1/><string name=n>v</string>
EmptyGroupDoc(g1, n) == InResources(<<EEmpty("ns", <<g1>>)>> \o Declaration(n, <<"v">>))

\* <string name=n>v</string>
PlainDoc(n) == InResources(Declaration(n, <<"v">>))

\* <ns name=g1><ns><string name=n>v</string></ns><string name=m>w</string></ns>
NamelessDoc(g1, n, m) ==
    InResources(<<EStart("ns", <<g1>>), EStart("ns", <<>>)>> \o Declaration(n, <<"v">>)
                    \o <<EEnd("ns")>> \o Declaration(m, <<"w">>) \o <<EEnd("ns")>>)

\* a parameter of a template: <tag name=n/> or <tag name=n></tag>
Param(form, tag, n) ==
    IF form = "empty" THEN <<EEmpty(tag, <<n>>)>> ELSE <<EStart(tag, <<n>>), EEnd(tag)>>

ParamForms == {"empty", "pair"}

TemplateText == <<" ", "{", "x", "}", " ", "{", "c", "}", " ">>

\* <template name=n> P(string x) P(number c) text </template><string name=m>w</string>
TemplateDoc(n, f1, f2, m) ==
    InResources(<<EStart("template", <<n>>)>> \o Param(f1, "string", <<"x">>)
                    \o Param(f2, "number", <<"c">>) \o <<EText(TemplateText)>>
                    \o <<EEnd("template")>> \o Declaration(m, <<"w">>))

Item(text) ==
    <<EStart("item", <<>>)>> \o (IF text = <<>> THEN <<>> ELSE <<EText(text)>>)
        \o <<EEnd("item")>>

ItemLists == {<<>>, <<<<"1">>>>, <<<<"1">>, <<" ", "2">>>>, <<<<>>, <<"2", " ">>>>}

ArrayTypes == {<<>>, <<"int">>}

ArraySpecs == {<<>>, <<"i8">>}

\* <array name=.. type=.. spec=..><item>..</item>..</array><string name=m>w</string>
ArrayDoc(name, type, subtype, items, m) ==
    InResources(<<[EStart("array", name) EXCEPT !.type = type, !.spec = subtype]>>
                    \o Flatten([i \in 1..Len(items) |-> Item(items[i])])
                    \o <<EEnd("array")>> \o Declaration(m, <<"w">>))

\* <doc>text</doc>
DocBlock(text) == <<EStart("doc", <<>>), EText(text), EEnd("doc")>>

\* what may stand before a declaration: nothing, <doc>d</doc>, or <doc> </doc>
Preambles == {<<>>, DocBlock(<<"d">>), DocBlock(<<" ">>)}

BoolTexts == {<<"t", "r", "u", "e">>, <<" ", "f", "a", "l", "s", "e", " ">>,
              <<"y", "e", "s">>, <<"T", "r", "u", "e">>}

\* <string name=n>v</string> pre <bool name="f">text</bool><string name=m>w</string>
BoolDoc(n, pre, text, m) ==
    InResources(Declaration(n, <<"v">>) \o pre
                    \o <<EStart("bool", <<<<"f">>>>), EText(text), EEnd("bool")>>
                    \o Declaration(m, <<"w">>))

DocTargets == {"scalar", "array", "template"}

\* pre, then a scalar, an array or a template named n, then <string name=m>w</string>
DocDoc(pre, target, n, m) ==
    InResources(pre
        \o (CASE target = "scalar" -> Declaration(n, <<"v">>)
              [] target = "array" ->
                     <<EStart("array", <<n>>)>> \o Item(<<"1">>) \o <<EEnd("array")>>
              [] target = "template" ->
                     <<EStart("template", <<n>>)>> \o Param("empty", "string", <<"x">>)
                         \o <<EText(TemplateText), EEnd("template")>>)
        \o Declaration(m, <<"w">>))

PieceTexts == {<<"t", "r", "u", "e">>, <<" ">>, <<" ", "7", " ">>}

\* <tag name=n>t1<!-- c -->t2</tag>
CommentDoc(tag, n, t1, t2) ==
    InResources(<<EStart(tag, <<n>>), EText(t1), EComment, EText(t2), EEnd(tag)>>)

Documents ==
    {NestedDoc(g1, g2, n) : g1 \in GroupNames, g2 \in GroupNames, n \in DeclNames}
        \cup {FollowingDoc(g1, n, m) : g1 \in GroupNames, n \in DeclNames, m \in DeclNames}
        \cup {EmptyGroupDoc(g1, n) : g1 \in GroupNames, n \in DeclNames}
        \cup {PlainDoc(n) : n \in DeclNames}
        \cup {NamelessDoc(g1, n, m) : g1 \in GroupNames, n \in DeclNames, m \in DeclNames}
        \cup {TemplateDoc(n, f1, f2, m) : n \in DeclNames, f1 \in ParamForms,
                                          f2 \in ParamForms, m \in DeclNames}
        \cup {ArrayDoc(name, type, subtype, items, m) :
                   name \in {<<>>} \cup {<<n>> : n \in DeclNames}, type \in ArrayTypes,
                   subtype \in ArraySpecs, items \in ItemLists, m \in DeclNames}
        \cup {BoolDoc(<<"n">>, pre, text, <<"m">>) : pre \in Preambles, text \in BoolTexts}
        \cup {DocDoc(pre, target, <<"n">>, <<"m">>) : pre \in Preambles, target \in DocTargets}
        \cup {CommentDoc(tag, <<"n">>, t1, t2) :
                   tag \in {"string", "number", "bool", "color"},
                   t1 \in PieceTexts, t2 \in PieceTexts}

InitParse ==
    /\ events \in Documents
    /\ consumed = <<>>
    /\ st = DefaultParseState
    /\ parsed = <<>>
    /\ open_elements = <<>>
    /\ decl_groups = <<>>
    /\ emitted = <<>>

\* the names of the <ns> groups among the open elements, outermost first
GroupsOf(elements) ==
    LET groups == SelectSeq(elements, LAMBDA el : el.tag = "ns" /\ el.name # <<>>)
    IN [i \in 1..Len(groups) |-> groups[i].name[1]]

\* Ok(Event::Start(e)) => handle_start(&mut state, &e)
ReadStart ==
    /\ events # <<>> /\ Head(events).e = "Start"
    /\ st' = handle_start(st, Head(events))
    /\ open_elements' = Append(open_elements, Head(events))
    /\ events' = Tail(events)
    /\ consumed' = Append(consumed, Head(events))
    /\ UNCHANGED <<parsed, decl_groups, emitted>>

\* Ok(Event::Empty(e)) => handle_start(&mut state, &e)
ReadEmpty ==
    /\ events # <<>> /\ Head(events).e = "Empty"
    /\ st' = handle_start(st, Head(events))
    /\ events' = Tail(events)
    /\ consumed' = Append(consumed, Head(events))
    /\ UNCHANGED <<parsed, open_elements, decl_groups, emitted>>

\* the groups around the innermost open element, its name attribute and its tag,
\* and the position `at` in the document of the event being read
Enclosing(elements, at) ==
    [groups |-> GroupsOf(SubSeq(elements, 1, Len(elements) - 1)),
     n |-> elements[Len(elements)].name,
     tag |-> elements[Len(elements)].tag,
     at |-> at]

\* Ok(Event::Text(e)) => if let Some(res) = handle_mid(..) { resources.push(res) }
ReadText ==
    /\ events # <<>> /\ Head(events).e = "Text"
    /\ st' = handle_mid(st, Head(events).text).state
    /\ parsed' = parsed \o handle_mid(st, Head(events).text).res
    /\ decl_groups' = IF handle_mid(st, Head(events).text).res = <<>> THEN decl_groups
                      ELSE Append(decl_groups, Enclosing(open_elements, Len(consumed) + 1))
    /\ events' = Tail(events)
    /\ consumed' = Append(consumed, Head(events))
    /\ UNCHANGED <<open_elements, emitted>>

\* Ok(Event::End(e)) => if let Some(res) = handle_end(..) { resources.push(res) }
ReadEnd ==
    /\ events # <<>> /\ Head(events).e = "End"
    /\ st' = handle_end(st, Head(events)).state
    /\ parsed' = parsed \o handle_end(st, Head(events)).res
    /\ decl_groups' = IF handle_end(st, Head(events)).res = <<>> THEN decl_groups
                      ELSE Append(decl_groups, Enclosing(open_elements, Len(consumed) + 1))
    /\ open_elements' = SubSeq(open_elements, 1, Len(open_elements) - 1)
    /\ events' = Tail(events)
    /\ consumed' = Append(consumed, Head(events))
    /\ UNCHANGED emitted

\* _ => {}
ReadOther ==
    /\ events # <<>> /\ Head(events).e \notin {"Start", "Empty", "Text", "End"}
    /\ events' = Tail(events)
    /\ consumed' = Append(consumed, Head(events))
    /\ UNCHANGED <<st, parsed, open_elements, decl_groups, emitted>>

\* what the string declarations read contribute to the resource table (handle_string)
StringDecls ==
    LET strings == SelectSeq(parsed, LAMBDA r : r.kind = "String")
    IN [i \in 1..Len(strings) |->
           [kind |-> "string", name |-> strings[i].name,
            value |-> parse_string_value(strings[i].value.s)]]

\* Ok(Event::Eof) => break; the text is generated from the table
Generate ==
    /\ events = <<>> /\ emitted = <<>>
    /\ \E order \in KeyOrders(load_all_resources(StringDecls)) :
           emitted' = <<generate_code(load_all_resources(StringDecls), order)>>
    /\ UNCHANGED <<events, consumed, st, parsed, open_elements, decl_groups>>

Parse == ReadStart \/ ReadEmpty \/ ReadText \/ ReadEnd \/ ReadOther \/ Generate

NextParse == Parse /\ UNCHANGED <<buildVars, resolveVars, templateVars, numberVars, loadVars, treeVars, classifyVars, profileVars, aliasVars>>

StartParse == InitParse /\ IdleBuild /\ IdleResolve /\ IdleTemplate /\ IdleNumber /\ IdleLoad /\ IdleTree /\ IdleClassify /\ IdleProfile /\ IdleAlias

SpecParse == StartParse /\ [][NextParse]_vars

(***************************************************************************)
(* Properties of namespace groups.                                         *)
(***************************************************************************)
\* g1/../gk/n
Qualified(groups, n) == Flatten([i \in 1..Len(groups) |-> groups[i] \o <<"/">>]) \o n

ModulePath(root, groups) ==
    <<"crate", "::">> \o root
        \o Flatten([i \in 1..Len(groups) |-> <<"::">> \o sanitize_identifier(groups[i])])

\* root::sanitize(g1)::..::sanitize(gk)::UPPER(sanitize(n))
PlaceIn(root, groups, n) ==
    ModulePath(root, groups) \o <<"::">> \o to_uppercase(sanitize_identifier(n))

ItemsAt(lines, path) == {Items(lines)[i].line : i \in {i \in 1..Len(Items(lines)) :
                                                         Items(lines)[i].path = path}}

\* C10: a declaration n inside the groups g1..gk is parsed as g1/../gk/n, groups
\* closed before it adding nothing, and its constant UPPER(sanitize(n)) is emitted
\* in the modules sanitize(g1)::..::sanitize(gk) of both the kind's module and
\* the flat module r, with the same value.
C10_NamespaceGroups ==
    \A j \in 1..Len(parsed) :
        LET groups == decl_groups[j].groups
            n == decl_groups[j].n[1]
        IN parsed[j].kind = "String" =>
           /\ parsed[j].name = Qualified(groups, n)
           /\ emitted # <<>> =>
                 /\ ItemsAt(emitted[1], PlaceIn(<<"r">>, groups, n)) # {}
                 /\ ItemsAt(emitted[1], PlaceIn(<<"s", "t", "r", "i", "n", "g">>, groups, n))
                        = ItemsAt(emitted[1], PlaceIn(<<"r">>, groups, n))

(***************************************************************************)
(* Properties of the reader's state.                                       *)
(***************************************************************************)
\* C11: while a file is read the namespace stack is the sequence of the names of
\* the open <ns> elements, outermost first (a nameless or self-closing group
\* included), and no resource is produced by a group tag.
C11_NamespaceStack ==
    /\ st.namespace_stack = GroupsOf(open_elements)
    /\ \A j \in 1..Len(decl_groups) : decl_groups[j].tag # "ns"

TypedTags == {"string", "number", "bool", "color"}

\* positions i < j of the opening and the closing tag of an element read so far
Element(tag, i, j) ==
    /\ i \in 1..Len(consumed) /\ j \in (i + 1)..Len(consumed)
    /\ consumed[i].e = "Start" /\ consumed[i].tag = tag
    /\ consumed[j].e = "End" /\ consumed[j].tag = tag
    /\ \A k \in (i + 1)..(j - 1) : ~(consumed[k].e = "End" /\ consumed[k].tag = tag)

\* the names of the typed sub-declarations between two positions, in document order
ParamNames(i, j) ==
    LET subs == SelectSeq(SubSeq(consumed, i + 1, j - 1),
                          LAMBDA e : e.e \in {"Start", "Empty"} /\ e.tag \in TypedTags)
    IN [k \in 1..Len(subs) |-> subs[k].name[1]]

\* the texts between two positions, trimmed, the empty ones left out
TextsBetween(i, j) ==
    LET texts == SelectSeq(SubSeq(consumed, i + 1, j - 1),
                           LAMBDA e : e.e = "Text" /\ Trim(e.text) # <<>>)
    IN [k \in 1..Len(texts) |-> Trim(texts[k].text)]

Produced(kind, name) == {k \in 1..Len(parsed) : parsed[k].kind = kind /\ parsed[k].name = name}

\* C12: once a template's closing tag is read, exactly one Template resource of
\* its name exists, its parameters are the typed sub-declarations in document
\* order, its text is the template text, and no sub-declaration is a resource of
\* its own, whether written <t name=n/> or <t name=n></t>.
C12_TemplateParams ==
    \A i \in 1..Len(consumed), j \in 1..Len(consumed) :
        Element("template", i, j) =>
            /\ Cardinality(Produced("Template", consumed[i].name[1])) = 1
            /\ \A k \in Produced("Template", consumed[i].name[1]) :
                   /\ [p \in 1..Len(parsed[k].value.params) |-> parsed[k].value.params[p].name]
                          = ParamNames(i, j)
                   /\ <<parsed[k].value.s>> = TextsBetween(i, j)
            /\ \A p \in 1..Len(ParamNames(i, j)) : \A k \in 1..Len(parsed) :
                   parsed[k].name = ParamNames(i, j)[p] => parsed[k].kind = "Template"

\* C13: once an array's closing tag is read the accumulation state is reset, and
\* a named array has produced exactly one Array resource of that name with the
\* trimmed non-empty item texts in order and the kind and subtype of its opening tag.
C13_ArrayEnd ==
    \A i \in 1..Len(consumed) :
        Element("array", i, Len(consumed)) =>
            /\ ~st.in_array /\ st.array_items = <<>>
            /\ st.array_type = <<>> /\ st.array_spec = <<>>
            /\ consumed[i].name # <<>> =>
                  /\ Cardinality(Produced("Array", consumed[i].name[1])) = 1
                  /\ parsed[Len(parsed)].kind = "Array"
                  /\ parsed[Len(parsed)].value.items = TextsBetween(i, Len(consumed))
                  /\ parsed[Len(parsed)].value.element_type
                         = (IF consumed[i].type = <<>> THEN "string" ELSE consumed[i].type[1])
                  /\ parsed[Len(parsed)].value.spec = consumed[i].spec

(***************************************************************************)
(* Number literals (codegen/parser/basic.rs).  A type name is one token;   *)
(* a result is Ok(value) or Err(message), a message being a text.          *)
(***************************************************************************)
Err(msg) == [ok |-> FALSE, s |-> msg]

IsDigit(c) == IndexIn(Digits, c) # 0

AllDigits(s) == s # <<>> /\ \A i \in 1..Len(s) : IsDigit(s[i])

Contains(s, c) == \E i \in 1..Len(s) : s[i] = c

RECURSIVE StripZeros(_)
\* the digits without their leading zeros, "0" for zero
StripZeros(digits) ==
    IF Len(digits) > 1 /\ Head(digits) = "0" THEN StripZeros(Tail(digits)) ELSE digits

\* a <= b for two magnitudes written without leading zeros
MagnitudeLeq(a, b) == Len(a) < Len(b) \/ (Len(a) = Len(b) /\ ~StrLess(b, a))

SignedTypes == {"i8", "i16", "i32", "i64"}

UnsignedTypes == {"u8", "u16", "u32", "u64"}

\* T::MAX, and the magnitude of T::MIN
MaxMagnitude(ty, negative) ==
    CASE ty = "i8" -> IF negative THEN <<"1", "2", "8">> ELSE <<"1", "2", "7">>
      [] ty = "i16" -> IF negative THEN <<"3", "2", "7", "6", "8">>
                       ELSE <<"3", "2", "7", "6", "7">>
      [] ty = "i32" -> IF negative THEN <<"2", "1", "4", "7", "4", "8", "3", "6", "4", "8">>
                       ELSE <<"2", "1", "4", "7", "4", "8", "3", "6", "4", "7">>
      [] ty = "i64" -> IF negative
                       THEN <<"9", "2", "2", "3", "3", "7", "2", "0", "3", "6",
                              "8", "5", "4", "7", "7", "5", "8", "0", "8">>
                       ELSE <<"9", "2", "2", "3", "3", "7", "2", "0", "3", "6",
                              "8", "5", "4", "7", "7", "5", "8", "0", "7">>
      [] ty = "u8" -> <<"2", "5", "5">>
      [] ty = "u16" -> <<"6", "5", "5", "3", "5">>
      [] ty = "u32" -> <<"4", "2", "9", "4", "9", "6", "7", "2", "9", "5">>
      [] ty = "u64" -> <<"1", "8", "4", "4", "6", "7", "4", "4", "0", "7",
                         "3", "7", "0", "9", "5", "5", "1", "6", "1", "5">>

\* a parse that accepts every magnitude
parse_int_unchecked(ty, src) ==
    IF src = <<>> \/ src = <<"+">> \/ src = <<"-">> THEN <<>>
    ELSE LET negative == Head(src) = "-" /\ ty \in SignedTypes
             digits == IF Head(src) = "+" \/ negative THEN Tail(src) ELSE src
         IN IF ~AllDigits(digits) THEN <<>>
            ELSE <<(IF negative THEN <<"-">> ELSE <<>>) \o StripZeros(digits)>>

\* str::parse::<T>() for an integer type T, followed by to_string(): <<>> for Err,
\* <<text>> for Ok.  A sign alone is an error, '-' is a digit error for an unsigned T.
parse_int(ty, src) ==
    IF src = <<>> \/ src = <<"+">> \/ src = <<"-">> THEN <<>>
    ELSE LET negative == Head(src) = "-" /\ ty \in SignedTypes
             digits == IF Head(src) = "+" \/ negative THEN Tail(src) ELSE src
             magnitude == StripZeros(digits)
         IN IF ~AllDigits(digits) THEN <<>>
            ELSE IF ~MagnitudeLeq(magnitude, MaxMagnitude(ty, negative)) THEN <<>>
            ELSE <<(IF negative /\ magnitude # <<"0">> THEN <<"-">> ELSE <<>>) \o magnitude>>

\* the position of the first 'e' or 'E', 0 when there is none
ExponentAt(s) ==
    IF \E i \in 1..Len(s) : s[i] \in {"e", "E"}
    THEN CHOOSE i \in 1..Len(s) : s[i] \in {"e", "E"} /\ \A j \in 1..(i - 1) : s[j] \notin {"e", "E"}
    ELSE 0

Unsigned(s) == IF s # <<>> /\ Head(s) \in {"+", "-"} THEN Tail(s) ELSE s

\* [sign] digits [. digits] [(e|E) [sign] digits], with a digit in the mantissa
IsDecimalLiteral(s) ==
    LET at == ExponentAt(s)
        mantissa == Unsigned(IF at = 0 THEN s ELSE SubSeq(s, 1, at - 1))
        exponent == IF at = 0 THEN <<>> ELSE Unsigned(SubSeq(s, at + 1, Len(s)))
    IN /\ \A i \in 1..Len(mantissa) : IsDigit(mantissa[i]) \/ mantissa[i] = "."
       /\ Cardinality({i \in 1..Len(mantissa) : mantissa[i] = "."}) <= 1
       /\ \E i \in 1..Len(mantissa) : IsDigit(mantissa[i])
       /\ at # 0 => AllDigits(exponent)

\* f64::from_str(literal).is_ok()
f64_from_str(literal) ==
    \/ IsDecimalLiteral(literal)
    \/ to_lowercase(Unsigned(literal)) \in {<<"i", "n", "f">>, <<"n", "a", "n">>,
                                            <<"i", "n", "f", "i", "n", "i", "t", "y">>}

\* BigDecimal::from_str(literal).is_ok()
BigDecimal_from_str(literal) == IsDecimalLiteral(literal)

NInt(text) == [t |-> "Int", v |-> text]
NFloat(literal) == [t |-> "Float", lit |-> literal]
NBigDecimal(literal) == [t |-> "BigDecimal", lit |-> literal]
NTyped(literal, ty) == [t |-> "Typed", lit |-> literal, ty |-> ty]

\* a test that takes no literal for an integer
looks_never_integer(literal) == FALSE

looks_like_integer(literal) ==
    ~(Contains(literal, ".") \/ Contains(literal, "e") \/ Contains(literal, "E"))

parse_big_decimal(literal) ==
    IF BigDecimal_from_str(literal) THEN Ok(NBigDecimal(literal))
    ELSE Err(<<"Invalid number literal '">> \o literal \o <<"'">>)

\* f64's Display, the value written as the literal it was read from; ".0" is added
\* when the text shows neither '.' nor an exponent
format_float64(literal) ==
    IF Contains(literal, ".") \/ Contains(literal, "e") \/ Contains(literal, "E")
    THEN literal ELSE literal \o <<".", "0">>

\* type_hint.trim().to_ascii_lowercase(), on the hints of the model
AsciiLowerHint(type_hint) ==
    CASE type_hint = "I32" -> "i32" [] type_hint = " u8 " -> "u8" [] OTHER -> type_hint

parse_explicit_number(literal, type_hint) ==
    LET type_name == AsciiLowerHint(type_hint)
        trimmed == Trim(literal)
    IN CASE type_name \in SignedTypes \cup UnsignedTypes ->
              IF parse_int(type_name, trimmed) = <<>>
              THEN Err(<<"'">> \o trimmed \o <<"'", " does not fit in ", type_name>>)
              ELSE Ok(NTyped(parse_int(type_name, trimmed)[1], type_name))
         [] type_name \in {"f32", "f64"} ->
              IF f64_from_str(trimmed)
              THEN Ok(NTyped(format_float64(trimmed), type_name))
              ELSE Err(<<"'">> \o trimmed \o <<"'", " is not a valid ", type_name, " literal">>)
         [] type_name = "bigdecimal" -> parse_big_decimal(literal)
         [] OTHER -> Err(<<"Unsupported number type '", type_name, "'">>)

parse_number_value(text, explicit_type) ==
    LET literal == Trim(text) IN
    IF literal = <<>> THEN Err(<<"Number literal cannot be empty">>)
    ELSE IF explicit_type # <<>> THEN parse_explicit_number(literal, explicit_type[1])
    ELSE IF looks_like_integer(literal)
         THEN IF parse_int("i64", literal) # <<>> THEN Ok(NInt(parse_int("i64", literal)[1]))
              ELSE parse_big_decimal(literal)
    ELSE IF f64_from_str(literal) THEN Ok(NFloat(literal))
    ELSE parse_big_decimal(literal)

\* [resources, panic]: the list under "number" afterwards, and <<message>> for panic!
handle_number(text, current_name, explicit_type, number_list) ==
    IF parse_string_value(text).t = "Reference"
    THEN [resources |-> Append(number_list, [name |-> current_name,
                                             value |-> parse_string_value(text)]),
          panic |-> <<>>]
    ELSE IF parse_number_value(text, explicit_type).ok
    THEN [resources |-> Append(number_list,
                               [name |-> current_name,
                                value |-> [t |-> "Number",
                                           n |-> parse_number_value(text, explicit_type).s]]),
          panic |-> <<>>]
    ELSE [resources |-> number_list, panic |-> <<parse_number_value(text, explicit_type).s>>]

NumberLiterals ==
    {<<"0">>,
     <<"-", "5">>,
     <<"+", "5">>,
     <<"0", "0", "7">>,
     <<"-", "0">>,
     <<"1", "2", "7">>,
     <<"1", "2", "8">>,
     <<"-", "1", "2", "8">>,
     <<"-", "1", "2", "9">>,
     <<"2", "5", "5">>,
     <<"2", "5", "6">>,
     <<"2", "1", "4", "7", "4", "8", "3", "6", "4", "8">>,
     <<"9", "2", "2", "3", "3", "7", "2", "0", "3", "6", "8", "5", "4", "7", "7", "5", "8", "0", "7">>,
     <<"9", "2", "2", "3", "3", "7", "2", "0", "3", "6", "8", "5", "4", "7", "7", "5", "8", "0", "8">>,
     <<"-", "9", "2", "2", "3", "3", "7", "2", "0", "3", "6", "8", "5", "4", "7", "7", "5", "8", "0", "8">>,
     <<"-", "9", "2", "2", "3", "3", "7", "2", "0", "3", "6", "8", "5", "4", "7", "7", "5", "8", "0", "9">>,
     <<"1", "8", "4", "4", "6", "7", "4", "4", "0", "7", "3", "7", "0", "9", "5", "5", "1", "6", "1", "5">>,
     <<"1", "8", "4", "4", "6", "7", "4", "4", "0", "7", "3", "7", "0", "9", "5", "5", "1", "6", "1", "6">>,
     <<"1", "2", "3", "4", "5", "6", "7", "8", "9", "0", "1", "2", "3", "4", "5", "6", "7", "8", "9", "0", "1", "2", "3", "4", "5", "6", "7", "8", "9", "0">>,
     <<"1", ".", "5">>,
     <<"1", "e", "5">>,
     <<"2", ".", "5", "E", "-", "3">>,
     <<"1", ".", "2", "3", "4", "5", "6", "7", "8", "9", "0", "1", "2", "3", "4", "5">>,
     <<"1", ".", "2", "3", "4", "5", "6", "7", "8", "9", "0", "1", "2", "3", "4", "5", "6">>,
     <<"1", "2", "3", "4", "5", "6", "7", "8", ".", "9", "0", "1", "2", "3", "4", "5", "6", "7", "8", "9", "e", "3">>,
     <<"a", "b", "c">>,
     <<"1", ".", "2", ".", "3">>,
     <<"1", "2", "a">>,
     <<"-">>}

TypeHints == {"i8", "i16", "i32", "i64", "u8", "u16", "u32", "u64", "f32", "f64",
              "bigdecimal", "I32", " u8 ", "u128"}

(***************************************************************************)
(* One run of the build driver (codegen/mod.rs, codegen/multi_file.rs).    *)
(***************************************************************************)
NumberName == <<"n">>

\* The <number name="n" type=...>text</number> declaration res/ may hold:
\*   5 as u8, 256 as u8, 1.5, 12a
NumberDecls ==
    { [text |-> <<"5">>, type |-> <<"u8">>],
      [text |-> <<"2", "5", "6">>, type |-> <<"u8">>],
      [text |-> <<"1", ".", "5">>, type |-> <<>>],
      [text |-> <<"1", "2", "a">>, type |-> <<>>] }

\* the text handler's arm for a number declaration: the list under "number" of
\* `table` is handed to handle_number
on_number_text(decl, table) ==
    handle_number(decl.text, NumberName, decl.type,
                  IF "number" \in DOMAIN table THEN table["number"] ELSE <<>>)

\* the table with the list handle_number left under "number", or its panic
MergeNumber(h) ==
    IF h.panic # <<>> THEN [table |-> resources, panic |-> h.panic]
    ELSE [table |-> [k \in DOMAIN resources \cup {"number"} |->
                        IF k = "number" THEN h.resources ELSE resources[k]],
          panic |-> <<>>]

\* load_all_resources(res_dir) on the input: [table, panic].  A file that is
\* not well-formed is warned about and skipped.
LoadedMain ==
    IF number_decl = <<>> THEN [table |-> resources, panic |-> <<>>]
    ELSE MergeNumber(on_number_text(number_decl[1], resources))

InitBuild ==
    /\ res_dir_exists \in BOOLEAN
    /\ resources \in Tables(MainPool, MaxEntries)
    /\ malformed \in 0..MaxMalformed
    /\ number_decl \in {<<>>} \cup {<<d>> : d \in NumberDecls}
    /\ res_dir_exists = FALSE =>
           resources = load_all_resources(<<>>) /\ malformed = 0 /\ number_decl = <<>>
    /\ tests_res_dir \in {<<>>} \cup {<<t>> : t \in Tables(TestPool, 1)}
    /\ ref_errors = <<>>
    /\ test_code = <<>>
    /\ cfg_has_tests = FALSE
    /\ code = <<>>
    /\ r_generated = <<>>
    /\ exit_status = "none"
    /\ prev_code = <<>>
    /\ prev_status = "none"
    /\ runs = 0
    /\ writes = 0

\* One run of build_with_options on the input; `load` is what loading res/ comes to,
\* `order` and `torder` are the orders in which this run's HashMaps yield the kinds
\* of the main and of the test table.
build_with_options(load, order, torder) ==
    LET all == load.table
        errors == validate_references(all, order)
        \* an empty table is load_all_resources' Err
        loaded_tests == IF tests_res_dir # <<>> /\ DOMAIN tests_res_dir[1] # {}
                        THEN <<tests_res_dir[1]>> ELSE <<>>
        text == IF loaded_tests # <<>>
                THEN generate_code_with_tests(all, order, loaded_tests[1], torder)
                ELSE generate_code(all, order)
    IN /\ runs < MaxRuns
       /\ runs' = runs + 1
       /\ prev_code' = code
       /\ prev_status' = exit_status
       /\ IF ~res_dir_exists
          THEN /\ code' = <<generate_empty_code>>
               /\ r_generated' = <<generate_empty_code>>
               /\ writes' = 1
               /\ exit_status' = "0"
               /\ ref_errors' = <<>>
               /\ test_code' = <<>>
               /\ cfg_has_tests' = FALSE
          ELSE IF load.panic # <<>>
          THEN /\ exit_status' = "101"
               /\ code' = <<>>
               /\ writes' = 0
               /\ ref_errors' = <<>>
               /\ test_code' = <<>>
               /\ cfg_has_tests' = FALSE
               /\ UNCHANGED r_generated
          ELSE IF DOMAIN all = {}
          THEN /\ exit_status' = "1"
               /\ code' = <<>>
               /\ writes' = 0
               /\ ref_errors' = <<>>
               /\ test_code' = <<>>
               /\ cfg_has_tests' = FALSE
               /\ UNCHANGED r_generated
          ELSE IF errors # <<>>
          THEN /\ ref_errors' = errors
               /\ exit_status' = "1"
               /\ code' = <<>>
               /\ writes' = 0
               /\ test_code' = <<>>
               /\ cfg_has_tests' = FALSE
               /\ UNCHANGED r_generated
          ELSE /\ ref_errors' = errors
               /\ test_code' = loaded_tests
               /\ cfg_has_tests' = (loaded_tests # <<>>)
               /\ code' = <<text>>
               /\ r_generated' = <<text>>
               /\ writes' = 1
               /\ exit_status' = "0"
       /\ UNCHANGED <<res_dir_exists, resources, tests_res_dir, malformed, number_decl>>

Build ==
    \E load \in {LoadedMain} :
        \E order \in KeyOrders(load.table) :
            \E torder \in (IF tests_res_dir = <<>> THEN {<<>>}
                            ELSE KeyOrders(tests_res_dir[1])) :
                build_with_options(load, order, torder)

NextBuild == Build /\ UNCHANGED <<resolveVars, templateVars, parseVars, numberVars, loadVars, treeVars, classifyVars, profileVars, aliasVars>>

StartBuild == InitBuild /\ IdleResolve /\ IdleTemplate /\ IdleParse /\ IdleNumber /\ IdleLoad /\ IdleTree /\ IdleClassify /\ IdleProfile /\ IdleAlias

SpecBuild == StartBuild /\ [][NextBuild]_vars

(***************************************************************************)
(* Number arrays (generator/ir/types/array.rs).                            *)
(***************************************************************************)
\* items.join(", ")
JoinComma(items) ==
    Flatten([i \in 1..Len(items) |-> (IF i > 1 THEN <<",", " ">> ELSE <<>>) \o items[i]])

SliceOf(ty) ==
    CASE ty = "i8" -> "&[i8]" [] ty = "i16" -> "&[i16]"
      [] ty = "i32" -> "&[i32]" [] ty = "i64" -> "&[i64]"
      [] ty = "u8" -> "&[u8]" [] ty = "u16" -> "&[u16]"
      [] ty = "u32" -> "&[u32]" [] ty = "u64" -> "&[u64]"
      [] ty = "f32" -> "&[f32]" [] ty = "f64" -> "&[f64]"

\* <<>> for Err, <<text>> for Ok
parse_number_for_type(literal, spec) ==
    LET trimmed == Trim(literal) IN
    IF spec = <<>> THEN <<trimmed>>
    ELSE CASE spec[1] \in SignedTypes \cup UnsignedTypes -> parse_int(spec[1], trimmed)
           [] spec[1] \in {"f32", "f64"} ->
                IF f64_from_str(trimmed) THEN <<format_float64(trimmed)>> ELSE <<>>
           [] OTHER -> <<trimmed>>

count_significant_digits(literal) ==
    LET at == ExponentAt(literal)
        mantissa == IF at = 0 THEN literal ELSE SubSeq(literal, 1, at - 1)
    IN Cardinality({i \in 1..Len(mantissa) : IsDigit(mantissa[i])})

\* the statics of a BigDecimal array, and the array of references to them
BigDecimalArray(const_name, items) ==
    [i \in 1..Len(items) |->
        LStatic(const_name \o <<"_ITEM_">> \o NatToStr(i - 1), "LazyLock<BigDecimal>",
                escape_literal(items[i]))]
        \o <<LStatic(const_name, "&[&LazyLock<BigDecimal>]",
                     JoinComma([i \in 1..Len(items) |->
                                   <<"&">> \o const_name \o <<"_ITEM_">> \o NatToStr(i - 1)]))>>

MaxOf(S) == IF S = {} THEN 0 ELSE CHOOSE m \in S : \A n \in S : n <= m

\* all_int is cleared by the first item with '.', 'e' or 'E'; the items before it
\* are the ones tried as i64
emit_auto_number_array(const_name, items) ==
    LET trimmed == [i \in 1..Len(items) |-> Trim(items[i])]
        decimal == {i \in 1..Len(items) : ~looks_like_integer(trimmed[i])}
        has_decimal == decimal # {}
        all_int == ~has_decimal
        all_fit_i64 == \A i \in 1..Len(items) :
                           (\A j \in decimal : i < j) => parse_int("i64", trimmed[i]) # <<>>
        max_significant_digits ==
            MaxOf({count_significant_digits(trimmed[i]) : i \in 1..Len(items)})
    IN IF all_int /\ all_fit_i64
       THEN <<LConst(const_name, "&[i64]", JoinComma(trimmed))>>
       ELSE IF has_decimal /\ max_significant_digits <= 15
       THEN <<LConst(const_name, "&[f64]",
                     JoinComma([i \in 1..Len(items) |->
                                   IF f64_from_str(trimmed[i]) THEN format_float64(trimmed[i])
                                   ELSE <<"0", ".", "0">>]))>>
       ELSE BigDecimalArray(const_name, trimmed)

\* ArrayType::emit_rust for element_type "number"
emit_rust(name, spec, items) ==
    LET const_name == to_uppercase(sanitize_identifier(name)) IN
    IF spec # <<>> /\ spec[1] \in SignedTypes \cup UnsignedTypes \cup {"f32", "f64"}
    THEN <<LConst(const_name, SliceOf(spec[1]),
                  JoinComma([i \in 1..Len(items) |->
                                IF parse_number_for_type(items[i], spec) # <<>>
                                THEN parse_number_for_type(items[i], spec)[1]
                                ELSE items[i]]))>>
    ELSE IF spec = <<"bigdecimal">> THEN BigDecimalArray(const_name, items)
    ELSE emit_auto_number_array(const_name, items)

(***************************************************************************)
(* One number declaration is handled and emitted, or one number array is   *)
(* emitted.                                                                *)
(***************************************************************************)
NumberTexts == NumberLiterals \cup {<<" ", "7", " ">>, <<"@", "number", "/", "x">>}

ItemTexts == {<<"5">>, <<"-", "5">>, <<"1", "2", "8">>, <<"3", "0", "0">>, <<"9", "2", "2", "3", "3", "7", "2", "0", "3", "6", "8", "5", "4", "7", "7", "5", "8", "0", "8">>, <<"1", ".", "5">>, <<"1", "e", "5">>, <<"1", ".", "2", "3", "4", "5", "6", "7", "8", "9", "0", "1", "2", "3", "4", "5">>, <<"1", ".", "2", "3", "4", "5", "6", "7", "8", "9", "0", "1", "2", "3", "4", "5", "6">>, <<"a", "b", "c">>}

MaxItems == 2

ItemSeqs == UNION {[1..n -> ItemTexts] : n \in 1..MaxItems}

ArraySpecHints == {<<>>, <<"i8">>, <<"u64">>, <<"f64">>, <<"bigdecimal">>}

InitNumber ==
    /\ num_mode \in {"number", "array"}
    /\ num_text \in (IF num_mode = "number" THEN NumberTexts ELSE {<<>>})
    /\ num_type \in (IF num_mode = "number" THEN {<<>>} \cup {<<h>> : h \in TypeHints}
                     ELSE {<<>>})
    /\ num_resources = <<>>
    /\ num_panic = <<>>
    /\ num_code = <<>>
    /\ arr_items \in (IF num_mode = "array" THEN ItemSeqs ELSE {<<>>})
    /\ arr_spec \in (IF num_mode = "array" THEN ArraySpecHints ELSE {<<>>})
    /\ arr_code = <<>>

\* handle_number(text, current_name, explicit_type, resources)
HandleNumber ==
    /\ num_mode = "number" /\ num_resources = <<>> /\ num_panic = <<>>
    /\ num_resources' = handle_number(num_text, NumberName, num_type, <<>>).resources
    /\ num_panic' = handle_number(num_text, NumberName, num_type, <<>>).panic
    /\ UNCHANGED <<num_mode, num_text, num_type, num_code, arr_items, arr_spec, arr_code>>

\* emit_number_resource for the recorded declaration
EmitNumber ==
    /\ num_resources # <<>> /\ num_code = <<>>
    /\ num_code' = <<emit_number_resource(to_uppercase(sanitize_identifier(NumberName)),
                                          num_resources[1])>>
    /\ UNCHANGED <<num_mode, num_text, num_type, num_resources, num_panic,
                   arr_items, arr_spec, arr_code>>

\* ArrayType::emit_rust for the array
EmitArray ==
    /\ num_mode = "array" /\ arr_code = <<>>
    /\ arr_code' = <<emit_rust(NumberName, arr_spec, arr_items)>>
    /\ UNCHANGED <<num_mode, num_text, num_type, num_resources, num_panic, num_code,
                   arr_items, arr_spec>>

Number == HandleNumber \/ EmitNumber \/ EmitArray

NextNumber == Number /\ UNCHANGED <<buildVars, resolveVars, templateVars, parseVars, loadVars, treeVars, classifyVars, profileVars, aliasVars>>

StartNumber == InitNumber /\ IdleBuild /\ IdleResolve /\ IdleTemplate /\ IdleParse /\ IdleLoad /\ IdleTree /\ IdleClassify /\ IdleProfile /\ IdleAlias

SpecNumber == StartNumber /\ [][NextNumber]_vars

(***************************************************************************)
(* Properties of number literals.                                          *)
(***************************************************************************)
NumberHandled == num_mode = "number" /\ (num_resources # <<>> \/ num_panic # <<>>)

Untyped == num_type = <<>>

Literal == Trim(num_text)

\* the NumberValue variant recorded for the declaration, "" when there is none
Classified ==
    IF num_resources # <<>> /\ num_resources[1].value.t = "Number"
    THEN num_resources[1].value.n.t ELSE ""

\* [sign] digits, where '-' is allowed only for a type that has negative values
WellFormedInteger(lit, ty) ==
    /\ AllDigits(Unsigned(lit))
    /\ lit # <<>> /\ Head(lit) = "-" => ty \in SignedTypes

\* the value of a well-formed integer literal lies in ty's range
InRange(lit, ty) ==
    LET magnitude == StripZeros(Unsigned(lit))
        negative == Head(lit) = "-" /\ magnitude # <<"0">>
    IN MagnitudeLeq(magnitude, MaxMagnitude(ty, negative))

\* C14: an untyped literal without '.', 'e' and 'E' is an i64 exactly when its
\* value lies in -2^63 .. 2^63-1, an arbitrary-precision decimal when it does
\* not, and never a float.
C14_IntegerClassification ==
    (NumberHandled /\ Untyped /\ WellFormedInteger(Literal, "i64")) =>
        /\ Classified = "Int" <=> InRange(Literal, "i64")
        /\ ~InRange(Literal, "i64") => Classified = "BigDecimal"
        /\ Classified # "Float"

C14_Witness ==
    /\ NumberHandled /\ Untyped /\ WellFormedInteger(Literal, "i64")
    /\ Len(Literal) = 30 /\ Classified = "BigDecimal"

\* the digits of the mantissa
MantissaDigits(lit) ==
    Cardinality({i \in 1..Len(lit) :
                    IsDigit(lit[i]) /\ \A j \in 1..(i - 1) : lit[j] \notin {"e", "E"}})

MaxFloatDigits == 15

HasPointOrExponent(lit) == IsDecimalLiteral(lit) /\ ~looks_like_integer(lit)

\* C15: an untyped literal with a decimal point or an exponent is a 64-bit float
\* only when it has at most 15 significant digits and an arbitrary-precision
\* decimal when it has more, as a declaration and as an element of an untyped array.
C15_FloatPrecision ==
    /\ (NumberHandled /\ Untyped /\ HasPointOrExponent(Literal)) =>
           /\ Classified = "Float" => MantissaDigits(Literal) <= MaxFloatDigits
           /\ MantissaDigits(Literal) > MaxFloatDigits => Classified = "BigDecimal"
    /\ (arr_code # <<>> /\ arr_spec = <<>>) =>
           \A i \in 1..Len(arr_items) :
               HasPointOrExponent(arr_items[i]) =>
                   /\ arr_code[1][Len(arr_code[1])].ty = "&[f64]"
                          => MantissaDigits(arr_items[i]) <= MaxFloatDigits
                   /\ MantissaDigits(arr_items[i]) > MaxFloatDigits
                          => arr_code[1][Len(arr_code[1])].ty = "&[&LazyLock<BigDecimal>]"

IntegerTyped == num_type # <<>> /\ num_type[1] \in SignedTypes \cup UnsignedTypes

\* sub occurs in text
ContainsText(text, sub) ==
    \E i \in 1..(Len(text) - Len(sub) + 1) : SubSeq(text, i, i + Len(sub) - 1) = sub

RECURSIVE SplitElements(_, _, _)
\* the elements of an array literal's body: the texts between ", "
SplitElements(s, cur, acc) ==
    IF s = <<>> THEN Append(acc, cur)
    ELSE IF Head(s) = "," THEN SplitElements(Tail(Tail(s)), <<>>, Append(acc, cur))
    ELSE SplitElements(Tail(s), Append(cur, Head(s)), acc)

\* C17: every element of an emitted array with an explicit integer subtype T is
\* a well-formed integer in T's range (an element that is not makes the build
\* fail rather than appear in the array).
C17_ArrayElements ==
    (arr_code # <<>> /\ arr_spec # <<>> /\ arr_spec[1] \in SignedTypes \cup UnsignedTypes) =>
        LET elements == SplitElements(arr_code[1][1].value, <<>>, <<>>) IN
        \A i \in 1..Len(elements) :
            /\ WellFormedInteger(elements[i], arr_spec[1])
            /\ InRange(elements[i], arr_spec[1])

(***************************************************************************)
(* Properties of a run of the build driver.                                *)
(***************************************************************************)
HasRun == runs > 0 /\ res_dir_exists

\* C18: when a file of res/ is not well-formed XML, the run ends in failure and
\* no text is generated from the other files.
C18_ParseErrorFatal ==
    (HasRun /\ malformed > 0) => (exit_status # "0" /\ code = <<>> /\ writes = 0)

\* the number declaration of res/ is not a number of its type
InvalidNumber ==
    /\ number_decl # <<>>
    /\ parse_string_value(number_decl[1].text).t # "Reference"
    /\ ~parse_number_value(number_decl[1].text, number_decl[1].type).ok

\* nothing of res/ was parsed into a resource
LoadFailure == ~InvalidNumber /\ DOMAIN LoadedMain.table = {}

DanglingReference == ~InvalidNumber /\ DanglingCount(LoadedMain.table) > 0

HardFailure == res_dir_exists /\ (LoadFailure \/ DanglingReference \/ InvalidNumber)

RTests == <<"r", "_", "t", "e", "s", "t", "s">>

StartsWith(s, pre) == Len(s) >= Len(pre) /\ SubSeq(s, 1, Len(pre)) = pre

InR(path) == StartsWith(path, <<"crate", "::", "r", "::">>)

InRTests(path) == StartsWith(path, <<"crate", "::">> \o RTests \o <<"::">>)

\* where generate_r_tests_module puts the constant of the test resource `name`
TestPlace(name) ==
    <<"crate", "::">> \o RTests \o SubSeq(EmittedPlace(name), 4, Len(EmittedPlace(name)))

RTestsEmitted ==
    code # <<>> /\ \E i \in 1..Len(code[1]) : code[1][i].l = "mod" /\ code[1][i].name = RTests

\* the test set named by the options was loaded by this run
TestsLoaded == test_code # <<>> /\ test_code = tests_res_dir /\ DOMAIN test_code[1] # {}

\* C20: after a run, r_tests is in the text exactly when the designated test
\* set was loaded, the flag r_resources_has_tests was printed exactly when
\* r_tests is in the text, every item of r_tests is a resource of the test set
\* (and each of them is there), and every item of r is a main resource.
C20_TestsNamespace ==
    runs > 0 =>
        /\ RTestsEmitted <=> TestsLoaded
        /\ test_code # <<>> => TestsLoaded
        /\ cfg_has_tests <=> RTestsEmitted
        /\ code # <<>> =>
               \A i \in 1..Len(Items(code[1])) :
                   LET p == Items(code[1])[i].path IN
                   /\ InRTests(p) =>
                          /\ TestsLoaded
                          /\ \E d \in Declared(test_code[1]) :
                                 p = TestPlace(NameOf(test_code[1], d))
                   /\ InR(p) =>
                          \E d \in Declared(LoadedMain.table) :
                              p = EmittedPlace(NameOf(LoadedMain.table, d))
                   /\ InR(p) \/ InRTests(p)
        /\ TestsLoaded =>
               \A d \in Declared(test_code[1]) :
                   \E i \in 1..Len(Items(code[1])) :
                       Items(code[1])[i].path = TestPlace(NameOf(test_code[1], d))

C20_Witness ==
    /\ HasRun /\ exit_status = "0" /\ RTestsEmitted /\ cfg_has_tests
    /\ \E i \in 1..Len(Items(code[1])) : InRTests(Items(code[1])[i].path)
    /\ \E i \in 1..Len(Items(code[1])) : InR(Items(code[1])[i].path)

(***************************************************************************)
(* Properties of the declarations the reader produces.                     *)
(***************************************************************************)
RECURSIVE ReadAll(_, _, _)
\* the loop of parse_single_file from `state` on, over the events `evs`
ReadAll(state, evs, found) ==
    IF evs = <<>> THEN found
    ELSE LET e == Head(evs) IN
         CASE e.e \in {"Start", "Empty"} -> ReadAll(handle_start(state, e), Tail(evs), found)
           [] e.e = "Text" -> ReadAll(handle_mid(state, e.text).state, Tail(evs),
                                      found \o handle_mid(state, e.text).res)
           [] e.e = "End" -> ReadAll(handle_end(state, e).state, Tail(evs),
                                     found \o handle_end(state, e).res)
           [] OTHER -> ReadAll(state, Tail(evs), found)

parse_single_file(evs) == ReadAll(DefaultParseState, evs, <<>>)

\* a text that is neither true nor false once trimmed
NotBoolean(text) == Trim(text) \notin {<<"t", "r", "u", "e">>, <<"f", "a", "l", "s", "e">>}

\* at position i of evs stands <bool ..>text</bool> with a text that is no boolean
BadBoolAt(evs, i) ==
    /\ i + 2 <= Len(evs)
    /\ evs[i].e = "Start" /\ evs[i].tag = "bool"
    /\ evs[i + 1].e = "Text" /\ NotBoolean(evs[i + 1].text)
    /\ evs[i + 2].e = "End" /\ evs[i + 2].tag = "bool"

RECURSIVE WithoutBadBools(_)
\* the document without its bool declarations whose text is no boolean
WithoutBadBools(evs) ==
    IF evs = <<>> THEN <<>>
    ELSE IF BadBoolAt(evs, 1) THEN WithoutBadBools(SubSeq(evs, 4, Len(evs)))
    ELSE <<Head(evs)>> \o WithoutBadBools(Tail(evs))

\* the resources produced while the events i..j were read
ProducedBetween(i, j) == {k \in 1..Len(parsed) : decl_groups[k].at \in i..j}

InsideTag(tag, i) ==
    \E a \in 1..(i - 1) :
        /\ consumed[a].e = "Start" /\ consumed[a].tag = tag
        /\ \A b \in (a + 1)..(i - 1) : ~(consumed[b].e = "End" /\ consumed[b].tag = tag)

\* a string/number/bool/color declaration of its own: not inside a template or an array
ScalarDeclaration(i, j) ==
    /\ \E tag \in TypedTags : Element(tag, i, j)
    /\ consumed[i].name # <<>>
    /\ ~InsideTag("template", i) /\ ~InsideTag("array", i)

\* the text a scalar resource carries
ValueText(r) ==
    IF r.kind = "Bool" THEN (IF r.value.b THEN <<"t", "r", "u", "e">>
                             ELSE <<"f", "a", "l", "s", "e">>)
    ELSE r.value.s

\* C22: a string/number/bool/color declaration produces at most one resource,
\* whose value is the trimmed text of the first non-whitespace text event inside
\* the tag; later text events produce nothing, and nothing is produced when all
\* text is empty or whitespace.
C22_OneResourcePerDeclaration ==
    \A i \in 1..Len(consumed), j \in 1..Len(consumed) :
        ScalarDeclaration(i, j) =>
            /\ Cardinality(ProducedBetween(i, j)) <= 1
            /\ TextsBetween(i, j) = <<>> => ProducedBetween(i, j) = {}
            /\ (TextsBetween(i, j) # <<>> /\ consumed[i].tag # "bool") =>
                   ProducedBetween(i, j) # {}
            /\ \A k \in ProducedBetween(i, j) : ValueText(parsed[k]) = TextsBetween(i, j)[1]

\* where the resource before the k-th was produced
PrevAt(k) == IF k = 1 THEN 0 ELSE decl_groups[k - 1].at

\* the doc blocks read after the previous resource and before the k-th was produced
DocBlocksBefore(k) ==
    {b \in (1..Len(consumed)) \X (1..Len(consumed)) :
        /\ Element("doc", b[1], b[2])
        /\ PrevAt(k) < b[1] /\ b[2] < decl_groups[k].at}

\* the doc the k-th resource is to carry: the text of the last such block
ExpectedDoc(k) ==
    IF DocBlocksBefore(k) = {} THEN <<>>
    ELSE LET last == CHOOSE b \in DocBlocksBefore(k) :
                         \A c \in DocBlocksBefore(k) : c[1] <= b[1]
         IN IF TextsBetween(last[1], last[2]) = <<>> THEN <<>>
            ELSE <<TextsBetween(last[1], last[2])[1]>>

\* C23: every resource produced carries the text of the doc block read since the
\* previous resource, and no doc when there was none.
C23_DocAttached ==
    \A k \in 1..Len(parsed) : parsed[k].doc = ExpectedDoc(k)

\* C28: once a template's closing tag is read the template state is reset, and
\* a string/number/bool/color declaration after a closed template is a
\* resource of its own and a parameter of no template.
C28_TemplateReset ==
    /\ \A i \in 1..Len(consumed) :
           Element("template", i, Len(consumed)) =>
               /\ ~st.in_template
               /\ st.template_params = <<>>
               /\ st.template_text = <<>>
               /\ st.current_name = <<>>
    /\ \A i \in 1..Len(consumed), j \in 1..Len(consumed) :
           \A a \in 1..Len(consumed), b \in 1..Len(consumed) :
               (/\ Element("template", i, j) /\ j < a
                /\ \E tag \in TypedTags \ {"bool"} : Element(tag, a, b)
                /\ consumed[a].name # <<>> /\ TextsBetween(a, b) # <<>>) =>
                   /\ ProducedBetween(a, b) # {}
                   /\ \A k \in 1..Len(parsed) :
                          parsed[k].kind = "Template" =>
                              \A q \in 1..Len(parsed[k].value.params) :
                                  parsed[k].value.params[q].name # consumed[a].name[1]

(***************************************************************************)
(* Loading a directory (codegen/multi_file.rs): find_xml_files, then the   *)
(* loop of load_all_resources over the files found.                        *)
(***************************************************************************)
MaxFiles == 3        \* entries of the directory

Xml(stem) == stem \o <<".", "x", "m", "l">>

\* What res/ may hold.  An entry is [path, is_file, ok, decls]: its file name,
\* whether it is a file, whether parse_resources accepts it, and its declarations.
\*   a.xml    <string name="x">1</string><number name="n">5</number><string name="w">4</string>
\*   b.xml    <string name="y">2</string><string name="x">3</string>
\*   a-b.xml  <number name="m">5</number><string name="z">5</string>
\*   c.xml    not well-formed
\*   n.txt    a file that is no XML file
\*   d.xml    a directory
DirPool ==
    << [path |-> Xml(<<"a">>), is_file |-> TRUE, ok |-> TRUE,
        decls |-> << [kind |-> "string", name |-> <<"x">>, value |-> VString(<<"1">>)],
                     [kind |-> "number", name |-> <<"n">>, value |-> VInt(5)],
                     [kind |-> "string", name |-> <<"w">>, value |-> VString(<<"4">>)] >>],
       [path |-> Xml(<<"b">>), is_file |-> TRUE, ok |-> TRUE,
        decls |-> << [kind |-> "string", name |-> <<"y">>, value |-> VString(<<"2">>)],
                     [kind |-> "string", name |-> <<"x">>, value |-> VString(<<"3">>)] >>],
       [path |-> Xml(<<"a", "-", "b">>), is_file |-> TRUE, ok |-> TRUE,
        decls |-> << [kind |-> "number", name |-> <<"m">>, value |-> VInt(5)],
                     [kind |-> "string", name |-> <<"z">>, value |-> VString(<<"5">>)] >>],
       [path |-> Xml(<<"c">>), is_file |-> TRUE, ok |-> FALSE,
        decls |-> << [kind |-> "string", name |-> <<"q">>, value |-> VString(<<"6">>)] >>],
       [path |-> <<"n", ".", "t", "x", "t">>, is_file |-> TRUE, ok |-> TRUE, decls |-> <<>>],
       [path |-> Xml(<<"d">>), is_file |-> FALSE, ok |-> TRUE, decls |-> <<>>] >>

\* Path::extension: what follows the last '.' of the file name, <<>> when there is
\* none or the only '.' is the first character
extension(path) ==
    LET dots == {i \in 2..Len(path) : path[i] = "."}
    IN IF dots = {} THEN <<>>
       ELSE SubSeq(path, (CHOOSE i \in dots : \A j \in dots : j <= i) + 1, Len(path))

\* a listing that is left in the order read_dir gave
unsorted(paths) == paths

\* xml_files.sort()
sort(paths) == SortedKeys(Range(paths))

find_xml_files(entries) ==
    LET found == SelectSeq(entries, LAMBDA en : en.is_file /\ extension(en.path) = <<"x", "m", "l">>)
    IN sort([i \in 1..Len(found) |-> found[i].path])

\* the entry of the directory with this path
EntryAt(path) == dir_entries[CHOOSE i \in 1..Len(dir_entries) : dir_entries[i].path = path]

\* parse_resources on the file's content: the declarations by kind, in document order
parse_resources(file) == load_all_resources(file.decls)

\* for (res_type, items) in resources { all.entry(res_type).or_insert_with(Vec::new).extend(items) }
MergeFile(all, parsed_file) ==
    [k \in DOMAIN all \cup DOMAIN parsed_file |->
        (IF k \in DOMAIN all THEN all[k] ELSE <<>>)
            \o (IF k \in DOMAIN parsed_file THEN parsed_file[k] ELSE <<>>)]

InitLoad ==
    /\ dir_entries \in UNION {Perms(S) : S \in {S \in SUBSET Range(DirPool) :
                                                    Cardinality(S) <= MaxFiles}}
    /\ xml_files = <<>>
    /\ next_file = 0
    /\ all_resources = load_all_resources(<<>>)
    /\ load_result = "none"

\* let xml_files = find_xml_files(res_dir)?; if xml_files.is_empty() { return Err(..) }
FindXmlFiles ==
    /\ load_result = "none" /\ xml_files = <<>>
    /\ xml_files' = <<find_xml_files(dir_entries)>>
    /\ IF find_xml_files(dir_entries) = <<>>
       THEN load_result' = "Err" /\ UNCHANGED next_file
       ELSE next_file' = 1 /\ UNCHANGED load_result
    /\ UNCHANGED <<dir_entries, all_resources>>

\* one turn of `for file_path in &xml_files`
ReadFile ==
    /\ load_result = "none" /\ xml_files # <<>> /\ next_file \in 1..Len(xml_files[1])
    /\ all_resources' = IF EntryAt(xml_files[1][next_file]).ok
                        THEN MergeFile(all_resources,
                                       parse_resources(EntryAt(xml_files[1][next_file])))
                        ELSE all_resources
    /\ next_file' = next_file + 1
    /\ UNCHANGED <<dir_entries, xml_files, load_result>>

\* if all_resources.is_empty() { return Err(..) }  Ok(all_resources)
FinishLoad ==
    /\ load_result = "none" /\ xml_files # <<>> /\ next_file = Len(xml_files[1]) + 1
    /\ load_result' = IF DOMAIN all_resources = {} THEN "Err" ELSE "Ok"
    /\ UNCHANGED <<dir_entries, xml_files, next_file, all_resources>>

Load == FindXmlFiles \/ ReadFile \/ FinishLoad

NextLoad == Load /\ UNCHANGED <<buildVars, resolveVars, templateVars, parseVars, numberVars, treeVars, classifyVars, profileVars, aliasVars>>

StartLoad == InitLoad /\ IdleBuild /\ IdleResolve /\ IdleTemplate /\ IdleParse /\ IdleNumber /\ IdleTree /\ IdleClassify /\ IdleProfile /\ IdleAlias

SpecLoad == StartLoad /\ [][NextLoad]_vars

(***************************************************************************)
(* Properties of the merged table.                                         *)
(***************************************************************************)
\* the XML files of the directory that parse, by ascending path
ParsedFiles ==
    LET idx == {i \in 1..Len(dir_entries) :
                   /\ dir_entries[i].is_file /\ dir_entries[i].ok
                   /\ Len(dir_entries[i].path) > 4
                   /\ SubSeq(dir_entries[i].path, Len(dir_entries[i].path) - 3,
                             Len(dir_entries[i].path)) = <<".", "x", "m", "l">>}
    IN CHOOSE f \in [1..Cardinality(idx) -> idx] :
           \A a, b \in 1..Cardinality(idx) :
               a < b => StrLess(dir_entries[f[a]].path, dir_entries[f[b]].path)

\* the declarations of one kind in a file, in the file's order
OfKind(file, k) ==
    LET mine == SelectSeq(file.decls, LAMBDA d : d.kind = k)
    IN [i \in 1..Len(mine) |-> [name |-> mine[i].name, value |-> mine[i].value]]

\* the per-file lists of kind k, concatenated by ascending path
Concatenated(k) ==
    Flatten([a \in 1..Len(ParsedFiles) |-> OfKind(dir_entries[ParsedFiles[a]], k)])

RECURSIVE SumLen(_)
SumLen(lists) == IF lists = <<>> THEN 0 ELSE Len(Head(lists)) + SumLen(Tail(lists))

\* C26: the table load_all_resources returns holds, for each kind, the per-file
\* lists of that kind concatenated by ascending file path, each file's order
\* kept; its length is the sum of the per-file lengths, so that a name declared
\* in two files appears twice.
C26_MergeOrder ==
    load_result = "Ok" =>
        /\ DOMAIN all_resources = {k \in {"string", "number"} : Concatenated(k) # <<>>}
        /\ \A k \in DOMAIN all_resources :
               /\ all_resources[k] = Concatenated(k)
               /\ Len(all_resources[k])
                      = SumLen([a \in 1..Len(ParsedFiles) |->
                                    OfKind(dir_entries[ParsedFiles[a]], k)])

C26_Witness ==
    /\ load_result = "Ok"
    /\ Len(ParsedFiles) >= 2
    /\ \E a, b \in 1..Len(dir_entries) :
           /\ a < b /\ dir_entries[a].ok /\ dir_entries[b].ok
           /\ dir_entries[a].decls # <<>> /\ dir_entries[b].decls # <<>>
           /\ StrLess(dir_entries[b].path, dir_entries[a].path)
    /\ \E i, j \in 1..Len(all_resources["string"]) :
           i # j /\ all_resources["string"][i].name = all_resources["string"][j].name

(***************************************************************************)
(* The namespace tree (generator/flat.rs): generate_r_module on a table    *)
(* whose names carry namespaces.                                           *)
(***************************************************************************)
MaxTreeEntries == 3       \* declarations of a table

\* The declarations, in document order:
\*   <ns name="b"><string name="u">1</string></ns>
\*   <ns name="a"><string name="t">2</string><string name="s">3</string></ns>
\*   <string name="y">4</string>          <number name="x">5</number>
\*   <ns name="a0"><string name="t">6</string></ns>
\*   <ns name="a-c"><string name="t">7</string></ns>
\*   <ns name="a"><ns name="c"><string name="v">8</string></ns></ns>
\*   <string name="c">9</string>          and a string whose name is "/"
\*   <number name="y">3</number>          <string name="Y">2</string>
\*   <ns name="a_c"><string name="t">1</string></ns>
TreePool ==
    << [kind |-> "string", name |-> <<"b", "/", "u">>, value |-> VString(<<"1">>)],
       [kind |-> "string", name |-> <<"a", "/", "t">>, value |-> VString(<<"2">>)],
       [kind |-> "string", name |-> <<"a", "/", "s">>, value |-> VString(<<"3">>)],
       [kind |-> "string", name |-> <<"y">>, value |-> VString(<<"4">>)],
       [kind |-> "number", name |-> <<"x">>, value |-> VInt(5)],
       [kind |-> "string", name |-> <<"a", "0", "/", "t">>, value |-> VString(<<"6">>)],
       [kind |-> "string", name |-> <<"a", "-", "c", "/", "t">>, value |-> VString(<<"7">>)],
       [kind |-> "string", name |-> <<"a", "/", "c", "/", "v">>, value |-> VString(<<"8">>)],
       [kind |-> "string", name |-> <<"c">>, value |-> VString(<<"9">>)],
       [kind |-> "string", name |-> <<"/">>, value |-> VString(<<"0">>)],
       [kind |-> "number", name |-> <<"y">>, value |-> VInt(3)],
       [kind |-> "string", name |-> <<"Y">>, value |-> VString(<<"2">>)],
       [kind |-> "string", name |-> <<"a", "_", "c", "/", "t">>, value |-> VString(<<"1">>)] >>

InitTree ==
    /\ tree_table \in Tables(TreePool, MaxTreeEntries)
    /\ tree_order \in KeyOrders(tree_table)
    /\ tree_code = <<>>

\* generate_r_module(resources)
EmitTree ==
    /\ tree_code = <<>>
    /\ tree_code' = <<generate_r_module(tree_table, tree_order)>>
    /\ UNCHANGED <<tree_table, tree_order>>

Tree == EmitTree

NextTree ==
    Tree /\ UNCHANGED <<buildVars, resolveVars, templateVars, parseVars, numberVars, loadVars,
                        classifyVars, profileVars,
                        aliasVars>>

StartTree ==
    /\ InitTree /\ IdleBuild /\ IdleResolve /\ IdleTemplate /\ IdleParse /\ IdleNumber
    /\ IdleLoad /\ IdleClassify /\ IdleProfile /\ IdleAlias

SpecTree == StartTree /\ [][NextTree]_vars

RECURSIVE ModStack(_, _)
\* the modules open after the first n lines of a text, outermost first
ModStack(lines, n) ==
    IF n = 0 THEN <<>>
    ELSE LET below == ModStack(lines, n - 1) IN
         CASE lines[n].l = "mod" -> Append(below, lines[n].name)
           [] lines[n].l = "end" -> SubSeq(below, 1, Len(below) - 1)
           [] OTHER -> below

\* the lines of the text that are `pub mod` lines directly inside module `path`
ModsAt(lines, path) ==
    SelectSeq([i \in 1..Len(lines) |-> [i |-> i, line |-> lines[i]]],
              LAMBDA e : e.line.l = "mod" /\ ModStack(lines, e.i - 1) = path)

\* the items (constants, statics, aliases) directly inside module `path`
LeavesAt(lines, path) ==
    SelectSeq([i \in 1..Len(lines) |-> [i |-> i, line |-> lines[i]]],
              LAMBDA e : e.line.l \in {"const", "static", "use"}
                            /\ ModStack(lines, e.i - 1) = path)

\* the resources of the table with a non-empty leaf name and a kind emit_resource knows
KnownKinds == {"string", "number", "bool", "color", "url", "dimension",
               "string_array", "int_array", "float_array"}

Emittable ==
    {r \in UNION {{[kind |-> k, i |-> i] : i \in 1..Len(tree_table[k])} :
                      k \in DOMAIN tree_table \cap KnownKinds} :
        split_path_to_namespace(tree_table[r.kind][r.i].name).leaf_name # <<>>}

SegmentsOf(r) == split_path_to_namespace(tree_table[r.kind][r.i].name).namespace_path

LeafOf(r) == split_path_to_namespace(tree_table[r.kind][r.i].name).leaf_name

\* the paths of the nodes of the tree, below the module r
NodePaths ==
    {<<>>} \cup UNION {{SubSeq(SegmentsOf(r), 1, n) : n \in 0..Len(SegmentsOf(r))} :
                          r \in Emittable}

\* C27: at every node of the emitted tree the child modules come in ascending
\* order of their sanitized segment names, the leaves come sorted by leaf name,
\* and every resource with a non-empty leaf name and a known kind is emitted
\* exactly once, at the node its namespace segments lead to.
C27_TreeOrder ==
    tree_code # <<>> =>
        LET lines == tree_code[1]
            paths == NodePaths \cup {Tail(ModStack(lines, n)) : n \in 1..(Len(lines) - 1)}
        IN \A p \in paths :
               LET mods == ModsAt(lines, <<<<"r">>>> \o p)
                   items == LeavesAt(lines, <<<<"r">>>> \o p)
                   here == {r \in Emittable : SegmentsOf(r) = p}
               IN /\ {mods[a].line.name : a \in 1..Len(mods)}
                         = {q[Len(p) + 1] : q \in {q \in NodePaths :
                                Len(q) > Len(p) /\ SubSeq(q, 1, Len(p)) = p}}
                  /\ \A a, b \in 1..Len(mods) :
                         a < b => StrLess(mods[a].line.name, mods[b].line.name)
                  /\ Len(items) = Cardinality(here)
                  /\ \E f \in [1..Len(items) -> here] :
                         /\ \A a, b \in 1..Len(items) : a # b => f[a] # f[b]
                         /\ \A a \in 1..Len(items) :
                                items[a].line.name
                                    = to_uppercase(sanitize_identifier(LeafOf(f[a])))
                         /\ \A a, b \in 1..Len(items) :
                                a < b => ~StrLess(LeafOf(f[b]), LeafOf(f[a]))

\* a tree with two child modules under one node and two leaves in one node,
\* declared in an order that is not the sorted one
C27_Witness ==
    /\ tree_code # <<>>
    /\ \E p \in NodePaths :
           /\ Len(ModsAt(tree_code[1], <<<<"r">>>> \o p)) >= 2
           /\ \E r1, r2 \in Emittable :
                  /\ r1.kind = r2.kind /\ r1.i < r2.i
                  /\ Len(SegmentsOf(r1)) > Len(p) /\ Len(SegmentsOf(r2)) > Len(p)
                  /\ StrLess(SegmentsOf(r2)[Len(p) + 1], SegmentsOf(r1)[Len(p) + 1])
    /\ \E r1, r2 \in Emittable :
           /\ r1.kind = r2.kind /\ r1.i < r2.i /\ SegmentsOf(r1) = SegmentsOf(r2)
           /\ StrLess(LeafOf(r2), LeafOf(r1))

\* the (kind, name) pairs of the table are pairwise distinct
DistinctDeclarations ==
    \A k \in DOMAIN tree_table :
        \A i, j \in 1..Len(tree_table[k]) :
            i # j => tree_table[k][i].name # tree_table[k][j].name

\* C34: when the resources have pairwise distinct (kind, name) pairs, no module
\* of the emitted tree holds two definitions with the same identifier.
C34_UniqueIdentifiers ==
    (tree_code # <<>> /\ DistinctDeclarations) =>
        \A n \in 1..Len(tree_code[1]) :
            LET here == LeavesAt(tree_code[1], ModStack(tree_code[1], n - 1))
            IN \A a, b \in 1..Len(here) : a # b => here[a].line.name # here[b].line.name

(***************************************************************************)
(* Classification of a text (types.rs): parse_string_value on texts with   *)
(* and without reference markers.                                          *)
(***************************************************************************)
\* @string/b
MarkerB == <<"@", "string", "/", "b">>

\* what a text starts with, what it holds, what it ends with
TextStarts == {<<>>, <<"x">>, <<"x", " ">>, <<" ">>}

TextBodies ==
    {<<>>, MarkerB, MarkerB \o <<"/", "c">>, MarkerB \o <<" ">> \o MarkerB, MarkerB \o MarkerB,
     <<"@">>, <<"@", "string">>, <<"@", "/", "b">>, <<"@", "string", "/">>,
     <<"@", "int", "/", "b", "_", "1">>}

TextEnds == {<<>>, <<".">>, <<"!">>, <<" ", "y">>, <<"y">>, <<",", " ", "y">>}

ClassifyTexts == {a \o b \o c : a \in TextStarts, b \in TextBodies, c \in TextEnds}

InitClassify ==
    /\ cls_text \in ClassifyTexts
    /\ cls_value = <<>>

\* ResourceValue::parse_string_value(s)
ClassifyText ==
    /\ cls_value = <<>>
    /\ cls_value' = <<parse_string_value(cls_text)>>
    /\ UNCHANGED cls_text

Classify == ClassifyText

NextClassify ==
    Classify /\ UNCHANGED <<buildVars, resolveVars, templateVars, parseVars, numberVars,
                            loadVars, treeVars, profileVars,
                            aliasVars>>

StartClassify ==
    /\ InitClassify /\ IdleBuild /\ IdleResolve /\ IdleTemplate /\ IdleParse /\ IdleNumber
    /\ IdleLoad /\ IdleTree /\ IdleProfile /\ IdleAlias

SpecClassify == StartClassify /\ [][NextClassify]_vars

\* the kinds a marker may name
MarkerKinds == {"string", "int", "float", "number", "bool", "color", "url", "dimension"}

\* s is one reference marker: '@', a kind, '/', a key
IsMarker(s) ==
    /\ Len(s) >= 4
    /\ s[1] = "@" /\ s[2] \in MarkerKinds /\ s[3] = "/"
    /\ \A i \in 4..Len(s) : IsKeyChar(s[i])
    /\ s[4] # "/" /\ s[Len(s)] # "/"

\* s holds a marker somewhere
HoldsMarker(s) == \E i, j \in 1..Len(s) : i <= j /\ IsMarker(SubSeq(s, i, j))

\* C30: a text is classified as a pure reference exactly when it is one reference
\* marker and nothing else; a text that holds a marker and other text is an
\* interpolation, and a text without a marker a plain string.
C30_PureReferenceExact ==
    cls_value # <<>> =>
        /\ cls_value[1].t = "Reference" <=> IsMarker(cls_text)
        /\ (HoldsMarker(cls_text) /\ ~IsMarker(cls_text)) =>
               cls_value[1].t = "InterpolatedString"
        /\ Count(cls_text, "@") = 0 => cls_value[1].t = "String"

RECURSIVE Rebuilds(_, _, _)
\* the parts, each text part as is and each reference part as '@' kind '/' key
\* with the kind as the text spells it, are the text s from position pos on
Rebuilds(parts, s, pos) ==
    IF parts = <<>> THEN pos = Len(s) + 1
    ELSE IF Head(parts).t = "Text"
    THEN /\ pos + Len(Head(parts).text) - 1 <= Len(s)
         /\ SubSeq(s, pos, pos + Len(Head(parts).text) - 1) = Head(parts).text
         /\ Rebuilds(Tail(parts), s, pos + Len(Head(parts).text))
    ELSE /\ pos <= Len(s) /\ s[pos] = "@"
         /\ \E q \in (pos + 1)..Len(s) :
                /\ s[q] = "/"
                /\ canonicalize_resource_type(KindOf(SubSeq(s, pos + 1, q - 1)))
                       = Head(parts).resource_type
                /\ q + Len(Head(parts).key) <= Len(s)
                /\ SubSeq(s, q + 1, q + Len(Head(parts).key)) = Head(parts).key
                /\ Rebuilds(Tail(parts), s, q + Len(Head(parts).key) + 1)

RECURSIVE ScanPositions(_, _)
\* the values current_pos takes in the loop of parse_interpolated_parts
ScanPositions(s, current_pos) ==
    IF current_pos > Len(s) THEN <<current_pos>>
    ELSE LET at_pos == FindFrom(s, "@", current_pos) IN
         IF at_pos = 0 THEN <<current_pos>>
         ELSE LET r == parse_ref_after_at(SubSeq(s, at_pos + 1, Len(s)))
              IN <<current_pos>>
                     \o ScanPositions(s, IF r.some THEN at_pos + 1 + r.consumed ELSE at_pos + 1)

\* C33: the parts of a text with '@', written back in order, give the text;
\* the scan position grows at every step; no reference part has an empty key.
C33_SplitLosesNothing ==
    (cls_value # <<>> /\ cls_value[1].t = "InterpolatedString") =>
        /\ Rebuilds(cls_value[1].parts, cls_text, 1)
        /\ \A i \in 1..(Len(ScanPositions(cls_text, 1)) - 1) :
               ScanPositions(cls_text, 1)[i] < ScanPositions(cls_text, 1)[i + 1]
        /\ \A i \in 1..Len(cls_value[1].parts) :
               cls_value[1].parts[i].t = "Reference" => cls_value[1].parts[i].key # <<>>

(***************************************************************************)
(* The profile filter (codegen/environment.rs): preprocess_xml, one event  *)
(* of the document per step.                                               *)
(***************************************************************************)
MaxChildren == 2      \* children of the root element

XStart(tag, attrs) == [e |-> "Start", tag |-> tag, attrs |-> attrs, text |-> <<>>]
XEmpty(tag, attrs) == [e |-> "Empty", tag |-> tag, attrs |-> attrs, text |-> <<>>]
XEnd(tag) == [e |-> "End", tag |-> tag, attrs |-> <<>>, text |-> <<>>]
XText(text) == [e |-> "Text", tag |-> "", attrs |-> <<>>, text |-> text]
XCData(text) == [e |-> "CData", tag |-> "", attrs |-> <<>>, text |-> text]
XComment(text) == [e |-> "Comment", tag |-> "", attrs |-> <<>>, text |-> text]

NameAttr == [key |-> "name", value |-> <<"a">>]

\* the attribute lists of an element: without a profile, for debug, for release
AttrLists ==
    {<<NameAttr>>, <<NameAttr, [key |-> "profile", value |-> "debug"]>>,
     <<[key |-> "profile", value |-> "release"], NameAttr>>}

\* <string ..>x</string>, <string ..> y </string>, <string ..><![CDATA[z]]></string>,
\* <string ..><!--c-->x</string>
XLeaves ==
    {<<XStart("string", at)>> \o content \o <<XEnd("string")>> :
        at \in AttrLists,
        content \in {<<XText(<<"x">>)>>, <<XText(<<" ", "y", " ">>)>>, <<XCData(<<"z">>)>>,
                     <<XComment(<<"c">>), XText(<<"x">>)>>}}

\* <bool ../>
XEmpties == {<<XEmpty("bool", at)>> : at \in AttrLists}

\* <ns ..> one element </ns>
XGroups ==
    {<<XStart("ns", at)>> \o inner \o <<XEnd("ns")>> :
        at \in AttrLists,
        inner \in {<<XStart("string", a2), XText(<<"x">>), XEnd("string")>> : a2 \in AttrLists}
                      \cup {<<XEmpty("bool", <<NameAttr>>)>>,
                            <<XEmpty("bool", <<NameAttr, [key |-> "profile",
                                                           value |-> "release"]>>)>>}}

XItems == XLeaves \cup XEmpties \cup XGroups

\* the well-formed documents: <resources> with up to MaxChildren children
XDocuments ==
    {<<XStart("resources", <<>>)>> \o Flatten(items) \o <<XEnd("resources")>> :
        items \in UNION {[1..n -> XItems] : n \in 0..MaxChildren}}

\* the value of the first attribute named profile: <<>> or <<p>>
profile_attr(e) ==
    LET at == {i \in 1..Len(e.attrs) : e.attrs[i].key = "profile"}
    IN IF at = {} THEN <<>>
       ELSE <<e.attrs[CHOOSE i \in at : \A j \in at : i <= j].value>>

InitProfile ==
    /\ xml \in XDocuments
    /\ current_profile \in {"debug", "release"}
    /\ xml_pos = 0
    /\ skip_depth = 0
    /\ pre_out = <<>>
    /\ pre_done = FALSE

\* the event read_event_into returns next
NextEvent == xml[xml_pos + 1]

Reading == ~pre_done /\ xml_pos < Len(xml)

\* Ok(Event::Start(e))
OnStart ==
    /\ Reading /\ NextEvent.e = "Start"
    /\ skip_depth' = IF skip_depth > 0 THEN skip_depth + 1
                     ELSE IF profile_attr(NextEvent) # <<>>
                             /\ profile_attr(NextEvent)[1] # current_profile
                          THEN 1
                          ELSE 0
    /\ pre_out' = IF skip_depth' = 0 THEN Append(pre_out, NextEvent) ELSE pre_out
    /\ xml_pos' = xml_pos + 1
    /\ UNCHANGED <<xml, current_profile, pre_done>>

\* Ok(Event::Empty(e))
OnEmpty ==
    /\ Reading /\ NextEvent.e = "Empty"
    /\ pre_out' = IF skip_depth = 0 /\ (profile_attr(NextEvent) = <<>>
                                          \/ profile_attr(NextEvent)[1] = current_profile)
                  THEN Append(pre_out, NextEvent)
                  ELSE pre_out
    /\ xml_pos' = xml_pos + 1
    /\ UNCHANGED <<xml, current_profile, skip_depth, pre_done>>

\* Ok(Event::Text(e)); the reader is configured with trim_text(true)
OnText ==
    /\ Reading /\ NextEvent.e = "Text"
    /\ pre_out' = IF skip_depth = 0 THEN Append(pre_out, XText(Trim(NextEvent.text)))
                  ELSE pre_out
    /\ xml_pos' = xml_pos + 1
    /\ UNCHANGED <<xml, current_profile, skip_depth, pre_done>>

\* Ok(Event::End(e))
OnEnd ==
    /\ Reading /\ NextEvent.e = "End"
    /\ IF skip_depth > 0
       THEN skip_depth' = skip_depth - 1 /\ UNCHANGED pre_out
       ELSE pre_out' = Append(pre_out, NextEvent) /\ UNCHANGED skip_depth
    /\ xml_pos' = xml_pos + 1
    /\ UNCHANGED <<xml, current_profile, pre_done>>

\* Ok(Event::Comment(_) | Event::CData(_) | ..) => ignore
OnIgnored ==
    /\ Reading /\ NextEvent.e \in {"Comment", "CData"}
    /\ xml_pos' = xml_pos + 1
    /\ UNCHANGED <<xml, current_profile, skip_depth, pre_out, pre_done>>

\* Ok(Event::Eof) => break
OnEof ==
    /\ ~pre_done /\ xml_pos = Len(xml)
    /\ pre_done' = TRUE
    /\ UNCHANGED <<xml, current_profile, xml_pos, skip_depth, pre_out>>

Profile == OnStart \/ OnEmpty \/ OnText \/ OnEnd \/ OnIgnored \/ OnEof

NextProfile ==
    Profile /\ UNCHANGED <<buildVars, resolveVars, templateVars, parseVars, numberVars,
                           loadVars, treeVars, classifyVars, aliasVars>>

StartProfile ==
    /\ InitProfile /\ IdleBuild /\ IdleResolve /\ IdleTemplate /\ IdleParse /\ IdleNumber
    /\ IdleLoad /\ IdleTree /\ IdleClassify /\ IdleAlias

SpecProfile == StartProfile /\ [][NextProfile]_vars

(***************************************************************************)
(* Properties of the profile filter.                                       *)
(***************************************************************************)
RECURSIVE OpenAt(_, _)
\* the positions of the start tags that are open after the first n events
OpenAt(doc, n) ==
    IF n = 0 THEN <<>>
    ELSE LET below == OpenAt(doc, n - 1) IN
         CASE doc[n].e = "Start" -> Append(below, n)
           [] doc[n].e = "End" -> SubSeq(below, 1, Len(below) - 1)
           [] OTHER -> below

Mismatch(e) == profile_attr(e) # <<>> /\ profile_attr(e)[1] # current_profile

\* the elements event n lies in, itself included when it is a tag
AncestorsOrSelf(doc, n) ==
    LET open == IF doc[n].e = "End" THEN OpenAt(doc, n - 1) ELSE OpenAt(doc, n)
    IN {open[i] : i \in 1..Len(open)} \cup (IF doc[n].e = "Empty" THEN {n} ELSE {})

Removed(doc, n) == \E a \in AncestorsOrSelf(doc, n) : Mismatch(doc[a])

\* the tags and the character data of the elements that are to stay
Surviving(doc) ==
    SelectSeq([n \in 1..Len(doc) |-> [n |-> n, ev |-> doc[n]]],
              LAMBDA x : x.ev.e # "Comment" /\ ~Removed(doc, x.n))

\* how deep the reader is inside the outermost mismatching element that is open
DepthInside(doc, n) ==
    LET open == OpenAt(doc, n)
        bad == {i \in 1..Len(open) : Mismatch(doc[open[i]])}
    IN IF bad = {} THEN 0
       ELSE Len(open) - (CHOOSE i \in bad : \A j \in bad : i <= j) + 1

\* C32: the filter's output holds exactly the elements without an
\* ancestor-or-self whose profile differs from the active one, each with its
\* start tag, attributes, text and end tag; the skip depth counts the open
\* elements from the mismatching one inwards and is 0 again after its end tag.
C32_ProfileFilter ==
    /\ skip_depth = DepthInside(xml, xml_pos)
    /\ pre_done =>
           pre_out = [i \in 1..Len(Surviving(xml)) |-> Surviving(xml)[i].ev]

(***************************************************************************)
(* Kind aliases in references: <number name="n">5</number> and one         *)
(* declaration that refers to a number as @int/.., @float/.. or @number/.. *)
(***************************************************************************)
\* @kind/key
MarkerOf(kind, key) == <<"@", kind, "/">> \o key

AliasKinds == {"int", "float", "number"}

\* the declarations that hold the reference:
\*   <string name="s">@K/key</string>     <string name="s">v @K/key</string>
\*   <string name="s">@K/key w</string>   <number name="c">@K/key</number>
AliasDecls ==
    UNION {{[tag |-> "string", form |-> "pure", kind |-> k, key |-> key,
             text |-> MarkerOf(k, key)],
            [tag |-> "string", form |-> "embedded", kind |-> k, key |-> key,
             text |-> <<"v", " ">> \o MarkerOf(k, key)],
            [tag |-> "string", form |-> "embedded", kind |-> k, key |-> key,
             text |-> MarkerOf(k, key) \o <<" ", "w">>],
            [tag |-> "number", form |-> "pure", kind |-> k, key |-> key,
             text |-> MarkerOf(k, key)]} :
        k \in AliasKinds \cup {"string"}, key \in {NumberName, <<"z", "z">>}}

\* the list basic::handle_number leaves under "number" for <number name="n">5</number>
TargetList == handle_number(<<"5">>, NumberName, <<>>, <<>>).resources

\* the table after the target and the declaration `decl` (handle_string, handle_number)
AliasTable(decl) ==
    IF decl.tag = "string"
    THEN [k \in {"number", "string"} |->
             IF k = "number" THEN TargetList
             ELSE <<[name |-> <<"s">>, value |-> parse_string_value(decl.text)]>>]
    ELSE [k \in {"number"} |-> handle_number(decl.text, <<"c">>, <<>>, TargetList).resources]

InitAlias ==
    /\ alias_decl \in {<<d>> : d \in AliasDecls}
    /\ alias_table = AliasTable(alias_decl[1])
    /\ alias_order \in KeyOrders(alias_table)
    /\ alias_errors = <<>>
    /\ alias_code = <<>>

\* let errors = validate_references(&resources)
ValidateAlias ==
    /\ alias_errors = <<>>
    /\ alias_errors' = <<validate_references(alias_table, alias_order)>>
    /\ UNCHANGED <<alias_decl, alias_table, alias_order, alias_code>>

\* generate_r_module(&resources), once validation has reported nothing
EmitAlias ==
    /\ alias_errors = <<<<>>>> /\ alias_code = <<>>
    /\ alias_code' = <<generate_r_module(alias_table, alias_order)>>
    /\ UNCHANGED <<alias_decl, alias_table, alias_order, alias_errors>>

Alias == ValidateAlias \/ EmitAlias

NextAlias ==
    Alias /\ UNCHANGED <<buildVars, resolveVars, templateVars, parseVars, numberVars,
                         loadVars, treeVars, classifyVars, profileVars>>

StartAlias ==
    /\ InitAlias /\ IdleBuild /\ IdleResolve /\ IdleTemplate /\ IdleParse /\ IdleNumber
    /\ IdleLoad /\ IdleTree /\ IdleClassify /\ IdleProfile

SpecAlias == StartAlias /\ [][NextAlias]_vars

\* the reference names the number n by one of its kind names
NamesNumber == alias_decl[1].kind \in AliasKinds /\ alias_decl[1].key = NumberName

\* validation finds the target of a pure reference under the canonical kind
AliasValidates ==
    (alias_errors # <<>> /\ alias_decl[1].form = "pure") =>
        (alias_errors[1] = <<>> <=> NamesNumber)

\* the text of the declaration with the marker replaced by the number's literal
WithNumber ==
    IF Head(alias_decl[1].text) = "@" THEN <<"5", " ", "w">> ELSE <<"v", " ", "5">>

\* an embedded reference to the number is rendered as the number
AliasInterpolates ==
    (alias_code # <<>> /\ alias_decl[1].form = "embedded" /\ NamesNumber) =>
        \E i \in 1..Len(alias_code[1]) :
            /\ alias_code[1][i].name = <<"S">>
            /\ alias_code[1][i].value = WithNumber

\* C31: a reference written @int/n, @float/n or @number/n resolves to the
\* number resource n, in the validation of pure references and in the lookup
\* of references embedded in a text.
C31_KindAliases == AliasValidates /\ AliasInterpolates

====
